---- MODULE Spec2Model ----
(***************************************************************************)
(* Model of the Sonarr quality settings of buildarr-sonarr:                *)
(*   src/buildarr_sonarr/config/quality.py           (quality definitions) *)
(*   src/buildarr_sonarr/config/profiles/quality.py  (quality profiles)    *)
(*                                                                         *)
(* Conventions.                                                            *)
(*   Optional[T]: None is the empty tuple <<>>, a value v is <<v>>.        *)
(*   str        : a TLA+ string.                                           *)
(*   float      : a size of v MB/min is the integer v * Unit, so that      *)
(*                sizes are the multiples of 1/Unit.                       *)
(*   dict       : insertion ordered; a sequence of <<key, value>> pairs    *)
(*                where the order is read, a function otherwise.           *)
(*   exception  : a result record with ok = FALSE and the error raised.    *)
(***************************************************************************)
EXTENDS Integers, Sequences, FiniteSets, TLC

VARIABLES
    \* QualityDefinition(min=, preferred=, max=) under construction
    qdIn,        \* the keyword arguments given
    qdOut,       \* None, or the instance or the ValidationError it gave
    qdPc         \* "new" before the call, "done" after

qdVars == <<qdIn, qdOut, qdPc>>

VARIABLES
    \* QualityProfile(...) built from local configuration or from remote JSON
    qpSrc,       \* "local": qpIn are keyword arguments; "remote": remote JSON
    qpIn,
    qpOut,       \* None, or the instance or the error it gave
    qpPc         \* "new" before the call, "done" after

qpVars == <<qpSrc, qpIn, qpOut, qpPc>>

VARIABLES
    \* the `custom_formats` of one profile: validated, encoded, decoded
    cfIn,        \* the list given
    cfApi,       \* api_customformats: name -> CustomFormatResource
    cfOut,       \* None, or what validate_custom_format gave
    cfWire,      \* None, or what _custom_formats_encoder gave
    cfBack,      \* None, or what _custom_formats_decoder gave
    cfPc         \* "new", "validated", "encoded", "decoded", or "failed"

cfVars == <<cfIn, cfApi, cfOut, cfWire, cfBack, cfPc>>

VARIABLES
    \* the `qualities` of one profile: encoded, decoded
    cdApi,       \* GET /api/v3/qualitydefinition
    cdQualities, \* the validated local list
    cdWire,      \* None, or what _encode_qualities gave
    cdBack,      \* None, or what _decode_qualities gave
    cdPc         \* "new", "encoded", "decoded"

cdVars == <<cdApi, cdQualities, cdWire, cdBack, cdPc>>

VARIABLES
    \* reconciliation of a local configuration with a remote instance
    rcLocal,       \* the local configuration: [quality, delete_unmanaged, definitions]
    rcApiDefs,     \* the instance: GET /api/v3/qualitydefinition
    rcApiProfiles, \* the instance: GET /api/v3/qualityprofile
    rcApiCfs,      \* the instance: its custom formats, as api_customformats
    rcRemote,      \* None, or what from_remote gave at the start of the pass
    rcTodo,        \* the update_remote handlers the pass has yet to run
    rcCalls,       \* the PUT, POST and DELETE calls of the pass, in order
    rcChanged,     \* what each handler of the pass returned
    rcPass,        \* the number of passes started
    rcPc           \* "start", "update", "delete", "failed", or "off"

rcVars == <<rcLocal, rcApiDefs, rcApiProfiles, rcApiCfs, rcRemote, rcTodo, rcCalls,
            rcChanged, rcPass, rcPc>>

VARIABLES
    \* SonarrQualitySettingsConfig._render() on a local configuration
    rnTrashId,      \* trash_id: None, or the id configured
    rnFiles,        \* the files of the quality-size directory, as iterdir() gives them
    rnDefinitions,  \* self.definitions
    rnRaised,       \* None, or the error _render raised
    rnPc            \* "new" before the call, "done" or "failed" after

rnVars == <<rnTrashId, rnFiles, rnDefinitions, rnRaised, rnPc>>

VARIABLES
    \* two reconciliation passes over the profiles of one instance, interleaved
    ccLocal,        \* the local definitions both passes apply
    ccApiProfiles,  \* GET /api/v3/qualityprofile of the instance
    ccRemote,       \* per pass: the remote instance from_remote gave it
    ccFetched,      \* per pass: the profiles update_remote's own GET returned
    ccAt,           \* per pass: the local definition update_remote's loop is at
    ccCalls,        \* per pass: the calls it made
    ccChanged,      \* per pass: update_remote's `changed`
    ccPc,           \* per pass: "start", "update", "loop", "delete", "done", "failed"
    ccSerial        \* no pass has started while another was under way

ccVars == <<ccLocal, ccApiProfiles, ccRemote, ccFetched, ccAt, ccCalls, ccChanged, ccPc,
            ccSerial>>

vars == <<qdVars, qpVars, cfVars, cdVars, rcVars, rnVars, ccVars>>

\* What the actions of one part leave unchanged: the other parts.
qdRest == <<qpVars, cfVars, cdVars, rcVars, rnVars, ccVars>>
qpRest == <<qdVars, cfVars, cdVars, rcVars, rnVars, ccVars>>
cfRest == <<qdVars, qpVars, cdVars, rcVars, rnVars, ccVars>>
cdRest == <<qdVars, qpVars, cfVars, rcVars, rnVars, ccVars>>
rcRest == <<qdVars, qpVars, cfVars, cdVars, rnVars, ccVars>>
rnRest == <<qdVars, qpVars, cfVars, cdVars, rcVars, ccVars>>
ccRest == <<qdVars, qpVars, cfVars, cdVars, rcVars, rnVars>>

(***************************************************************************)
(* Optional values and small helpers.                                      *)
(***************************************************************************)
None == <<>>
Some(v) == <<v>>
IsNone(o) == Len(o) = 0
Val(o) == o[1]

Ok(v) == [ok |-> TRUE, value |-> v]
Err(e) == [ok |-> FALSE, error |-> e]

Range(s) == {s[i] : i \in DOMAIN s}

(***************************************************************************)
(* config/quality.py: QualityDefinition                                    *)
(***************************************************************************)
\* Sizes are modelled in steps of 1/Unit MB/min.
Unit == 2

QUALITYDEFINITION_PREFERRED_MAX == 1000
QUALITYDEFINITION_MAX == 1000

\* min: Annotated[float, Field(ge=0, le=QUALITYDEFINITION_MAX - 1)]
FieldMin(value) ==
    IF IsNone(value) THEN Err(<<"float_type">>)
    ELSE IF Val(value) < 0 THEN Err(<<"greater_than_equal", 0>>)
    ELSE IF Val(value) > (QUALITYDEFINITION_MAX - 1) * Unit
         THEN Err(<<"less_than_equal", QUALITYDEFINITION_MAX - 1>>)
    ELSE Ok(Val(value))

\* preferred: Optional[float] = Field(..., ge=0, le=QUALITYDEFINITION_PREFERRED_MAX)
FieldPreferred(value) ==
    IF IsNone(value) THEN Ok(None)
    ELSE IF Val(value) < 0 THEN Err(<<"greater_than_equal", 0>>)
    ELSE IF Val(value) > QUALITYDEFINITION_PREFERRED_MAX * Unit
         THEN Err(<<"less_than_equal", QUALITYDEFINITION_PREFERRED_MAX>>)
    ELSE Ok(value)

\* max: Optional[Annotated[float, Field(ge=1, le=QUALITYDEFINITION_MAX)]]
FieldMax(value) ==
    IF IsNone(value) THEN Ok(None)
    ELSE IF Val(value) < 1 * Unit THEN Err(<<"greater_than_equal", 1>>)
    ELSE IF Val(value) > QUALITYDEFINITION_MAX * Unit
         THEN Err(<<"less_than_equal", QUALITYDEFINITION_MAX>>)
    ELSE Ok(value)

\* @validator("preferred")
validate_preferred(value, values) ==
    IF IsNone(value) \/ Val(value) >= QUALITYDEFINITION_PREFERRED_MAX * Unit
    THEN Ok(None)
    \* values["min"] raises KeyError when `min` failed: the check is skipped
    ELSE IF "min" \in DOMAIN values /\ (Val(value) - values["min"]) < 1 * Unit
         THEN Err(<<"preferred_not_1_greater_than_min", Val(value), values["min"]>>)
    ELSE Ok(value)

\* float(values["preferred"]); a TypeError (None) gives the upper bound
quality_preferred(values) ==
    IF IsNone(values["preferred"])
    THEN QUALITYDEFINITION_PREFERRED_MAX * Unit
    ELSE Val(values["preferred"])

\* Mutant: max is compared without the margin of 1.
validate_max_no_margin(value, values) ==
    IF IsNone(value) \/ Val(value) >= QUALITYDEFINITION_MAX * Unit
    THEN Ok(None)
    ELSE IF "preferred" \in DOMAIN values /\ (Val(value) - quality_preferred(values)) < 0
         THEN Err(<<"max_not_1_greater_than_preferred", Val(value), quality_preferred(values)>>)
    ELSE Ok(value)

\* @validator("max")
validate_max(value, values) ==
    IF IsNone(value) \/ Val(value) >= QUALITYDEFINITION_MAX * Unit
    THEN Ok(None)
    \* values["preferred"] raises KeyError when `preferred` failed: skipped
    ELSE IF "preferred" \in DOMAIN values /\ (Val(value) - quality_preferred(values)) < 1 * Unit
         THEN Err(<<"max_not_1_greater_than_preferred", Val(value), quality_preferred(values)>>)
    ELSE Ok(value)

\* The sizes a definition is given: around 0 and 1, around the upper bound,
\* and the documented example (min 2, max 100).
SizeSamples ==
    ((0 - 1) .. (3 * Unit))
        \cup (((QUALITYDEFINITION_MAX - 2) * Unit) .. ((QUALITYDEFINITION_MAX + 1) * Unit))
        \cup {100 * Unit}

OptSize == {None} \cup {Some(v) : v \in SizeSamples}

\* QualityDefinition(title=, min=, preferred=, max=): the fields are validated
\* in declaration order, each field's constraints and then its validator;
\* `values` holds the fields that passed. Every field is validated even when
\* an earlier one failed, and the errors are raised together.
QualityDefinitionNew(kw) ==
    LET m  == FieldMin(kw.min)
        v0 == "title" :> kw.title
        v1 == IF m.ok THEN v0 @@ ("min" :> m.value) ELSE v0
        fp == FieldPreferred(kw.preferred)
        p  == IF fp.ok THEN validate_preferred(fp.value, v1) ELSE fp
        v2 == IF p.ok THEN v1 @@ ("preferred" :> p.value) ELSE v1
        fx == FieldMax(kw.max)
        x  == IF fx.ok THEN validate_max(fx.value, v2) ELSE fx
        v3 == IF x.ok THEN v2 @@ ("max" :> x.value) ELSE v2
        errors == (IF m.ok THEN {} ELSE {<<"min", m.error>>})
                      \cup (IF p.ok THEN {} ELSE {<<"preferred", p.error>>})
                      \cup (IF x.ok THEN {} ELSE {<<"max", x.error>>})
    IN  IF errors = {} THEN Ok(v3) ELSE [ok |-> FALSE, errors |-> errors]

(***************************************************************************)
(* config/profiles/quality.py: QualityGroup, CustomFormatScore and the     *)
(* validators of QualityProfile                                            *)
(***************************************************************************)
\* An entry of `qualities` is a str or a QualityGroup.
Str(n) == [kind |-> "str", name |-> n]
QualityGroup(n, ms) == [kind |-> "group", name |-> n, members |-> ms]
IsGroup(q) == q.kind = "group"

CustomFormatScore(n, sc) == [name |-> n, score |-> sc]

Min(S) == CHOOSE x \in S : \A y \in S : x <= y

\* The orders a set can be iterated in (a Set[str] has no defined order).
Orders(S) == {f \in [1..Cardinality(S) -> S] : \A i, j \in DOMAIN f : f[i] = f[j] => i = j}

\* `for member in quality.members`, iterated in the order `ord`
MembersSeq(q, ord) == SelectSeq(ord, LAMBDA n : n \in q.members)

\* `quality.members if isinstance(quality, QualityGroup) else [quality]`
NamesOf(q, ord) == IF IsGroup(q) THEN MembersSeq(q, ord) ELSE <<q.name>>

\* The (name, entry) pairs the two loops of validate_qualities visit, in order.
RECURSIVE FlatNames(_, _, _)
FlatNames(value, i, ord) ==
    IF i > Len(value) THEN <<>>
    ELSE LET ns == NamesOf(value[i], ord)
         IN  [k \in 1..Len(ns) |-> [name |-> ns[k], at |-> i]]
                 \o FlatNames(value, i + 1, ord)

\* The message built at lines 200-215. The first test reads `quality` twice.
duplicate_message(name, quality, other) ==
    <<"duplicate entries of quality value", name>> \o
    (IF ~IsGroup(quality) /\ ~IsGroup(quality)
     THEN <<"both are non-grouped quality values">>
     ELSE (IF IsGroup(quality)
           THEN <<"one as part of quality group", quality.name>>
           ELSE <<"one as a non-grouped quality value">>)
          \o (IF IsGroup(other)
              THEN <<"another as part of quality group", other.name>>
              ELSE <<"another as a non-grouped quality value">>))

\* @field_validator("qualities")
validate_qualities(value, ord) ==
    LET flat == FlatNames(value, 1, ord)
        dups == {j \in DOMAIN flat : \E i \in 1..(j - 1) : flat[i].name = flat[j].name}
    IN  IF dups = {} THEN Ok(value)
        ELSE LET j == Min(dups)
                 i == CHOOSE i \in 1..(j - 1) : flat[i].name = flat[j].name
             IN  Err(duplicate_message(flat[j].name, value[flat[j].at], value[flat[i].at]))

\* Mutant: with upgrades disallowed the given value is kept.
validate_upgrade_until_keeps_value(value, data) ==
    IF ~({"upgrades_allowed", "qualities"} \subseteq DOMAIN data) THEN Ok(value)
    ELSE IF ~data["upgrades_allowed"] THEN Ok(value)
    ELSE IF IsNone(value) THEN Err(<<"required if 'upgrades_allowed' is True">>)
    ELSE IF \E k \in DOMAIN data["qualities"] : Val(value) = data["qualities"][k].name
         THEN Ok(value)
    ELSE Err(<<"must be set to a value enabled in 'qualities'">>)

\* Mutant: the members of a group are accepted as well.
validate_upgrade_until_accepts_members(value, data) ==
    IF ~({"upgrades_allowed", "qualities"} \subseteq DOMAIN data) THEN Ok(value)
    ELSE IF ~data["upgrades_allowed"] THEN Ok(None)
    ELSE IF IsNone(value) THEN Err(<<"required if 'upgrades_allowed' is True">>)
    ELSE IF \E k \in DOMAIN data["qualities"] :
                \/ Val(value) = data["qualities"][k].name
                \/ IsGroup(data["qualities"][k]) /\ Val(value) \in data["qualities"][k].members
         THEN Ok(value)
    ELSE Err(<<"must be set to a value enabled in 'qualities'">>)

\* @field_validator("upgrade_until")
validate_upgrade_until(value, data) ==
    \* info.data[...] raises KeyError when either field failed: value is kept
    IF ~({"upgrades_allowed", "qualities"} \subseteq DOMAIN data) THEN Ok(value)
    ELSE IF ~data["upgrades_allowed"] THEN Ok(None)
    ELSE IF IsNone(value) THEN Err(<<"required if 'upgrades_allowed' is True">>)
    ELSE IF \E k \in DOMAIN data["qualities"] : Val(value) = data["qualities"][k].name
         THEN Ok(value)
    ELSE Err(<<"must be set to a value enabled in 'qualities'">>)

\* @validator("upgrade_until_custom_format_score")
validate_upgrade_until_custom_format_score(value, values) ==
    IF "minimum_custom_format_score" \notin DOMAIN values THEN Ok(value)
    ELSE IF value < values["minimum_custom_format_score"]
         THEN Err(<<"must be greater than 'minimum_custom_format_score'",
                    value, values["minimum_custom_format_score"]>>)
    ELSE Ok(value)

\* The loop of validate_custom_format from entry i on; `kept` is the list
\* `custom_formats`, which holds the same names as `custom_format_names`.
RECURSIVE validate_custom_format_from(_, _, _)
validate_custom_format_from(value, i, kept) ==
    IF i > Len(value) THEN Ok(kept)
    ELSE LET cf == value[i]
             first == {k \in DOMAIN kept : kept[k].name = cf.name}
         IN  IF first # {}
             THEN LET first_score == kept[Min(first)].score
                  IN  IF first_score = cf.score
                      THEN validate_custom_format_from(value, i + 1, kept)
                      ELSE Err(<<"more than one score defined for custom format",
                                 cf.name, first_score, cf.score>>)
             ELSE validate_custom_format_from(value, i + 1, Append(kept, cf))

\* Mutant: a repeated name is kept whenever the scores agree.
validate_custom_format_keeps_duplicates(value) ==
    IF \E i, j \in DOMAIN value : value[i].name = value[j].name /\ value[i].score # value[j].score
    THEN validate_custom_format_from(value, 1, <<>>)
    ELSE Ok(value)

\* @validator("custom_formats")
validate_custom_format(value) == validate_custom_format_from(value, 1, <<>>)

\* QualityProfile(**kw): the fields are validated in declaration order, each
\* field's constraints and then its validator; a field that failed is
\* missing from the `values` the later validators read.
QualityProfileNew(kw, ord) ==
    LET q  == IF Len(kw.qualities) < 1 THEN Err(<<"too_short", 1>>)
              ELSE validate_qualities(kw.qualities, ord)
        \* minimum_custom_format_score has no constraint: it is in `values`
        u  == validate_upgrade_until_custom_format_score(
                  kw.upgrade_until_custom_format_score,
                  [minimum_custom_format_score |-> kw.minimum_custom_format_score])
        n  == IF kw.minimum_custom_format_score_increment < 1
              THEN Err(<<"greater_than_equal", 1>>)
              ELSE Ok(kw.minimum_custom_format_score_increment)
        c  == validate_custom_format(kw.custom_formats)
        \* what validate_upgrade_until reads of info.data
        data == IF q.ok
                THEN [upgrades_allowed |-> kw.upgrades_allowed, qualities |-> q.value]
                ELSE [upgrades_allowed |-> kw.upgrades_allowed]
        t  == IF ~IsNone(kw.upgrade_until) /\ Val(kw.upgrade_until) = ""
              THEN Err(<<"string_too_short", 1>>)
              ELSE validate_upgrade_until(kw.upgrade_until, data)
        errors == (IF q.ok THEN {} ELSE {<<"qualities", q.error>>})
                      \cup (IF u.ok THEN {}
                            ELSE {<<"upgrade_until_custom_format_score", u.error>>})
                      \cup (IF n.ok THEN {}
                            ELSE {<<"minimum_custom_format_score_increment", n.error>>})
                      \cup (IF c.ok THEN {} ELSE {<<"custom_formats", c.error>>})
                      \cup (IF t.ok THEN {} ELSE {<<"upgrade_until", t.error>>})
    IN  IF errors = {}
        THEN Ok([upgrades_allowed |-> kw.upgrades_allowed,
                 qualities |-> q.value,
                 minimum_custom_format_score |-> kw.minimum_custom_format_score,
                 upgrade_until_custom_format_score |-> u.value,
                 minimum_custom_format_score_increment |-> n.value,
                 custom_formats |-> c.value,
                 upgrade_until |-> t.value])
        ELSE [ok |-> FALSE, errors |-> errors]

(***************************************************************************)
(* config/profiles/quality.py: the encoders and decoders of QualityProfile *)
(*                                                                         *)
(* Remote JSON objects are records with the keys of the API:               *)
(*   quality definition [id, quality: [id, name], title, minSize,          *)
(*                       preferredSize, maxSize, weight]                   *)
(*   profile item       [quality, items, allowed]            (one quality) *)
(*                      [id, name, allowed, items]           (a group)     *)
(*   format item        [format, name, score]                              *)
(* An encoder raises KeyError on a name its catalog lacks; that is         *)
(* decided by CanEncode before the encoders are applied.                   *)
(***************************************************************************)
Max(S) == CHOOSE x \in S : \A y \in S : x >= y

Reverse(s) == [k \in 1..Len(s) |-> s[Len(s) + 1 - k]]

\* An insertion-ordered dict: a sequence of [key, value], one per key.
DictKeys(d) == [k \in 1..Len(d) |-> d[k].key]
DictHas(d, key) == \E k \in DOMAIN d : d[k].key = key
DictGet(d, key) == d[CHOOSE k \in DOMAIN d : d[k].key = key].value
DictSet(d, key, value) ==
    IF DictHas(d, key)
    THEN [k \in 1..Len(d) |-> IF d[k].key = key THEN [key |-> key, value |-> value] ELSE d[k]]
    ELSE Append(d, [key |-> key, value |-> value])

\* sorted(..., key=lambda q: q["weight"], reverse=True): stable
RECURSIVE SortedByWeightDesc(_)
SortedByWeightDesc(l) ==
    IF Len(l) = 0 THEN <<>>
    ELSE LET top == Max({l[k].weight : k \in DOMAIN l})
             at  == Min({k \in DOMAIN l : l[k].weight = top})
         IN  <<l[at]>> \o SortedByWeightDesc(SubSeq(l, 1, at - 1) \o SubSeq(l, at + 1, Len(l)))

\* The dict comprehension over an already sorted list (lines 520-527):
\* {quality_json["title"]: quality_json["quality"] for quality_json in ...}
RECURSIVE quality_definitions_from(_)
quality_definitions_from(sorted_definitions) ==
    IF Len(sorted_definitions) = 0 THEN <<>>
    ELSE LET n == Len(sorted_definitions)
         IN  DictSet(quality_definitions_from(SubSeq(sorted_definitions, 1, n - 1)),
                     sorted_definitions[n].title, sorted_definitions[n].quality)

\* update_remote's `quality_definitions`, from GET /api/v3/qualitydefinition
quality_definitions_of(api_definitions) ==
    quality_definitions_from(SortedByWeightDesc(api_definitions))

\* group_ids of _create_remote and _update_remote: 1000 + i for the i-th
\* group (from 1); a later group of the same name overwrites the entry.
group_ids_of(qualities) ==
    LET gs == SelectSeq(qualities, IsGroup)
    IN  [n \in {gs[i].name : i \in DOMAIN gs} |->
             1000 + Max({i \in DOMAIN gs : gs[i].name = n})]

_encode_quality_str(quality_definitions, quality_name, allowed) ==
    [quality |-> DictGet(quality_definitions, quality_name), items |-> <<>>, allowed |-> allowed]

\* QualityGroup.encode
QualityGroup_encode(group, group_id, quality_definitions, ord) ==
    LET ms == MembersSeq(group, ord)
    IN  [id |-> group_id, name |-> group.name, allowed |-> TRUE,
         items |-> [k \in 1..Len(ms) |-> _encode_quality_str(quality_definitions, ms[k], TRUE)]]

\* The names `enabled_qualities` holds after the first loop.
enabled_qualities_of(qualities) ==
    UNION {IF IsGroup(qualities[k]) THEN qualities[k].members ELSE {qualities[k].name}
               : k \in DOMAIN qualities}

\* Mutant: the list is sent as built, not reversed.
_encode_qualities_unreversed(quality_definitions, group_ids, qualities, ord) ==
    LET enabled == enabled_qualities_of(qualities)
        keys == SelectSeq(DictKeys(quality_definitions), LAMBDA n : n \notin enabled)
    IN  [k \in 1..Len(qualities) |->
            IF IsGroup(qualities[k])
            THEN QualityGroup_encode(qualities[k], group_ids[qualities[k].name],
                                     quality_definitions, ord)
            ELSE _encode_quality_str(quality_definitions, qualities[k].name, TRUE)]
        \o [k \in 1..Len(keys) |->
                _encode_quality_str(quality_definitions, keys[k], FALSE)]

_encode_qualities(quality_definitions, group_ids, qualities, ord) ==
    LET enabled == enabled_qualities_of(qualities)
        keys == SelectSeq(DictKeys(quality_definitions), LAMBDA n : n \notin enabled)
    IN  Reverse([k \in 1..Len(qualities) |->
                    IF IsGroup(qualities[k])
                    THEN QualityGroup_encode(qualities[k], group_ids[qualities[k].name],
                                             quality_definitions, ord)
                    ELSE _encode_quality_str(quality_definitions, qualities[k].name, TRUE)]
                \o [k \in 1..Len(keys) |->
                        _encode_quality_str(quality_definitions, keys[k], FALSE)])

_decode_qualities(value) ==
    LET kept == SelectSeq(Reverse(value), LAMBDA quality : quality.allowed)
    IN  [k \in 1..Len(kept) |->
            IF Len(kept[k].items) > 0
            THEN QualityGroup(kept[k].name,
                              {kept[k].items[m].quality.name : m \in DOMAIN kept[k].items})
            ELSE Str(kept[k].quality.name)]

\* Mutant: only the entries without an "id" key (single qualities) are looked at.
_upgrade_until_decoder_skips_groups(items, cutoff) ==
    LET found == {k \in DOMAIN items : "id" \notin DOMAIN items[k] /\ items[k].quality.id = cutoff}
    IN  IF found = {}
        THEN Err(<<"RuntimeError", "Inconsistent Sonarr instance state", cutoff, items>>)
        ELSE Ok(items[Min(found)].quality.name)

_upgrade_until_decoder(items, cutoff) ==
    LET quality(k) == IF "id" \in DOMAIN items[k] THEN items[k] ELSE items[k].quality
        found == {k \in DOMAIN items : quality(k).id = cutoff}
    IN  IF found = {}
        THEN Err(<<"RuntimeError", "Inconsistent Sonarr instance state", cutoff, items>>)
        ELSE Ok(quality(Min(found)).name)

_upgrade_until_encoder(quality_definitions, group_ids, qualities, upgrade_until) ==
    IF IsNone(upgrade_until) \/ Val(upgrade_until) = ""
    THEN IF IsGroup(qualities[1])
         THEN group_ids[qualities[1].name]
         ELSE DictGet(quality_definitions, qualities[1].name).id
    ELSE IF Val(upgrade_until) \in DOMAIN group_ids
         THEN group_ids[Val(upgrade_until)]
         ELSE DictGet(quality_definitions, Val(upgrade_until)).id

\* The custom format names in use, in the order str.__lt__ gives them.
CustomFormatNames == <<"cf-a", "cf-b", "cf-c">>
NameRank(n) == CHOOSE i \in DOMAIN CustomFormatNames : CustomFormatNames[i] = n

\* key=lambda cfs: (-cast(int, cfs.score), cfs.name)
CfsBefore(a, b) ==
    \/ (0 - Val(a.score)) < (0 - Val(b.score))
    \/ Val(a.score) = Val(b.score) /\ NameRank(a.name) < NameRank(b.name)

RECURSIVE SortedCfs(_)
SortedCfs(l) ==
    IF Len(l) = 0 THEN <<>>
    ELSE LET at == Min({k \in DOMAIN l : \A m \in DOMAIN l : ~CfsBefore(l[m], l[k])})
         IN  <<l[at]>> \o SortedCfs(SubSeq(l, 1, at - 1) \o SubSeq(l, at + 1, Len(l)))

_custom_formats_decoder(api_customformat_scores) ==
    LET kept == SelectSeq(api_customformat_scores, LAMBDA api_cfs : api_cfs.score # Some(0))
    IN  IF \E k \in DOMAIN kept : IsNone(kept[k].score)
        THEN Err(<<"TypeError", "bad operand type for unary -: 'NoneType'">>)
        ELSE Ok(SortedCfs([k \in 1..Len(kept) |->
                              CustomFormatScore(kept[k].name, kept[k].score)]))

\* Mutant: every remote custom format is appended, listed locally or not.
_custom_formats_encoder_appends_all(api_customformats, customformat_scores) ==
    [k \in 1..Len(customformat_scores) |->
            [format |-> DictGet(api_customformats, customformat_scores[k].name).id,
             name |-> customformat_scores[k].name,
             score |-> customformat_scores[k].score]]
        \o [k \in 1..Len(api_customformats) |->
                [format |-> api_customformats[k].value.id,
                 name |-> api_customformats[k].key,
                 score |-> Some(0)]]

_custom_formats_encoder(api_customformats, customformat_scores) ==
    LET customformat_names ==
            {customformat_scores[k].name : k \in DOMAIN customformat_scores}
        rest == SelectSeq(api_customformats, LAMBDA e : e.key \notin customformat_names)
    IN  [k \in 1..Len(customformat_scores) |->
            [format |-> DictGet(api_customformats, customformat_scores[k].name).id,
             name |-> customformat_scores[k].name,
             score |-> customformat_scores[k].score]]
        \o [k \in 1..Len(rest) |->
                [format |-> rest[k].value.id, name |-> rest[k].key, score |-> Some(0)]]

(***************************************************************************)
(* QualityProfile._from_remote and the inputs of the constructor           *)
(***************************************************************************)
\* cls.get_local_attrs(cls._get_remote_map(), remote_attrs): the keyword
\* arguments decoded from a remote profile, in the order of the remote map.
\* A decoder that raises ends the call.
get_local_attrs(remote_attrs) ==
    LET cf == _custom_formats_decoder(remote_attrs.formatItems)
        uu == _upgrade_until_decoder(remote_attrs.items, remote_attrs.cutoff)
    IN  IF ~cf.ok THEN [ok |-> FALSE, raised |-> cf.error]
        ELSE IF ~uu.ok THEN [ok |-> FALSE, raised |-> uu.error]
        ELSE Ok([minimum_custom_format_score |-> remote_attrs.minFormatScore,
                 upgrade_until_custom_format_score |-> remote_attrs.cutoffFormatScore,
                 minimum_custom_format_score_increment |-> remote_attrs.minUpgradeFormatScore,
                 custom_formats |-> cf.value,
                 upgrades_allowed |-> remote_attrs.upgradeAllowed,
                 upgrade_until |-> Some(uu.value),
                 qualities |-> _decode_qualities(remote_attrs.items)])

\* QualityProfile._from_remote
_from_remote(remote_attrs, ord) ==
    LET kw == get_local_attrs(remote_attrs)
    IN  IF kw.ok THEN QualityProfileNew(kw.value, ord) ELSE kw

(***************************************************************************)
(* The remote instance and the handlers that reconcile it.                 *)
(*                                                                         *)
(* The REST API is modelled by what it keeps: POST stores the body under a *)
(* fresh id, PUT replaces the object of that id by the body, DELETE        *)
(* removes it. A call is recorded as [method, resource, id, body].         *)
(* buildarr's ConfigBase compares a local and a remote instance field by   *)
(* field (get_update_remote_attrs) and encodes the mapped fields           *)
(* (get_create_remote_attrs); both are modelled from their description.    *)
(***************************************************************************)
ApiPost(objects, body) ==
    Append(objects,
           ("id" :> (IF Len(objects) = 0 THEN 1
                     ELSE 1 + Max({objects[k].id : k \in DOMAIN objects}))) @@ body)
ApiPut(objects, id, body) == [k \in 1..Len(objects) |-> IF objects[k].id = id THEN body ELSE objects[k]]
ApiDelete(objects, id) == SelectSeq(objects, LAMBDA o : o.id # id)

\* A dict comprehension over a list of [key, value].
RECURSIVE DictFromPairs(_)
DictFromPairs(pairs) ==
    IF Len(pairs) = 0 THEN <<>>
    ELSE DictSet(DictFromPairs(SubSeq(pairs, 1, Len(pairs) - 1)),
                 pairs[Len(pairs)].key, pairs[Len(pairs)].value)

\* The QualityDefinition built per entry by SonarrQualitySettingsConfig.from_remote
QualityDefinition_from_remote(definition_json) ==
    QualityDefinitionNew(
        [title |-> IF definition_json.title # definition_json.quality.name
                   THEN Some(definition_json.title) ELSE None,
         min |-> definition_json.minSize,
         preferred |-> definition_json.preferredSize,
         max |-> definition_json.maxSize])

\* SonarrQualitySettingsConfig.from_remote: `definitions`, or the error raised
quality_from_remote(api_definitions) ==
    IF \E k \in DOMAIN api_definitions : ~QualityDefinition_from_remote(api_definitions[k]).ok
    THEN [ok |-> FALSE, raised |-> <<"ValidationError", "QualityDefinition">>]
    ELSE Ok(DictFromPairs([k \in 1..Len(api_definitions) |->
                [key |-> api_definitions[k].quality.name,
                 value |-> QualityDefinition_from_remote(api_definitions[k]).value]]))

\* SonarrQualityProfilesSettingsConfig.from_remote: `definitions`, or the error raised
profiles_from_remote(api_profiles, ord) ==
    IF \E k \in DOMAIN api_profiles : ~_from_remote(api_profiles[k], ord).ok
    THEN [ok |-> FALSE, raised |-> <<"Error", "QualityProfile._from_remote">>]
    ELSE Ok(DictFromPairs([k \in 1..Len(api_profiles) |->
                [key |-> api_profiles[k].name,
                 value |-> _from_remote(api_profiles[k], ord).value]]))

\* The remote map of SonarrQualitySettingsConfig.update_remote (lines 242-247)
definition_remote_name(attr) ==
    CASE attr = "title" -> "title"
      [] attr = "min" -> "minSize"
      [] attr = "preferred" -> "preferredSize"
      [] attr = "max" -> "maxSize"

definition_encode(definition_name, attr, v) ==
    CASE attr = "title" -> (IF IsNone(v) \/ Val(v) = "" THEN definition_name ELSE Val(v))
      [] attr = "min" -> Some(v)
      [] OTHER -> v

\* local_definition.get_update_remote_attrs(remote=..., remote_map=...): the
\* encoded attributes that differ (none: not updated).
definition_update_remote_attrs(definition_name, local, remote) ==
    LET differs == {attr \in {"title", "min", "preferred", "max"} : local[attr] # remote[attr]}
    IN  [n \in {definition_remote_name(attr) : attr \in differs} |->
            LET attr == CHOOSE a \in differs : definition_remote_name(a) = n
            IN  definition_encode(definition_name, attr, local[attr])]

\* The loop of SonarrQualitySettingsConfig.update_remote from entry i on.
\* `fetched` is the GET made before the loop; acc is [api, calls, changed].
RECURSIVE quality_update_remote_from(_, _, _, _, _)
quality_update_remote_from(definitions, i, remote, fetched, acc) ==
    IF i > Len(definitions) THEN [ok |-> TRUE] @@ acc
    ELSE LET definition_name == definitions[i].key
         IN  IF ~DictHas(remote, definition_name)
             THEN [ok |-> FALSE, raised |-> <<"KeyError", definition_name>>] @@ acc
             ELSE LET remote_attrs == definition_update_remote_attrs(
                                          definition_name, definitions[i].value,
                                          DictGet(remote, definition_name))
                      at == Max({k \in DOMAIN fetched :
                                    fetched[k].quality.name = definition_name})
                      definition_id == fetched[at].id
                      json == fetched[Max({k \in DOMAIN fetched : fetched[k].id = definition_id})]
                      body == remote_attrs @@ json
                  IN  IF DOMAIN remote_attrs = {}
                      THEN quality_update_remote_from(definitions, i + 1, remote, fetched, acc)
                      ELSE quality_update_remote_from(definitions, i + 1, remote, fetched,
                               [api |-> ApiPut(acc.api, definition_id, body),
                                calls |-> Append(acc.calls,
                                                 [method |-> "PUT",
                                                  resource |-> "qualitydefinition",
                                                  id |-> definition_id, body |-> body]),
                                changed |-> TRUE])

\* Mutant: the definitions with no local entry are PUT as well, as they are.
quality_update_remote_puts_unmanaged(definitions, remote, api_definitions) ==
    LET r == quality_update_remote_from(definitions, 1, remote, api_definitions,
                 [api |-> api_definitions, calls |-> <<>>, changed |-> FALSE])
        others == SelectSeq(api_definitions,
                            LAMBDA d : ~DictHas(definitions, d.quality.name))
    IN  [r EXCEPT !.calls = @ \o [k \in 1..Len(others) |->
                                     [method |-> "PUT", resource |-> "qualitydefinition",
                                      id |-> others[k].id, body |-> others[k]]]]

\* SonarrQualitySettingsConfig.update_remote
quality_update_remote(definitions, remote, api_definitions) ==
    quality_update_remote_from(definitions, 1, remote, api_definitions,
                               [api |-> api_definitions, calls |-> <<>>, changed |-> FALSE])

\* The local attributes of the remote map of QualityProfile (lines 291-328)
ProfileAttrs ==
    {"minimum_custom_format_score", "upgrade_until_custom_format_score",
     "minimum_custom_format_score_increment", "custom_formats", "upgrades_allowed",
     "upgrade_until", "qualities"}

\* Every mapped field, encoded by the remote map built with these catalogs.
profile_remote_attrs(profile, quality_definitions, api_customformats, group_ids, ord) ==
    [minFormatScore |-> profile["minimum_custom_format_score"],
     cutoffFormatScore |-> profile["upgrade_until_custom_format_score"],
     minUpgradeFormatScore |-> profile["minimum_custom_format_score_increment"],
     formatItems |-> _custom_formats_encoder(api_customformats, profile["custom_formats"]),
     upgradeAllowed |-> profile["upgrades_allowed"],
     cutoff |-> _upgrade_until_encoder(quality_definitions, group_ids,
                                       profile["qualities"], profile["upgrade_until"]),
     items |-> _encode_qualities(quality_definitions, group_ids, profile["qualities"], ord)]

\* No encoder raises KeyError: every quality named is a key of
\* quality_definitions, every custom format one of api_customformats.
CanEncode(profile, quality_definitions, api_customformats) ==
    /\ \A n \in enabled_qualities_of(profile["qualities"]) : DictHas(quality_definitions, n)
    /\ \A k \in DOMAIN profile["custom_formats"] :
           DictHas(api_customformats, profile["custom_formats"][k].name)

\* get_update_remote_attrs(..., check_unmanaged=True, ...): some field differs
profile_changed(profile, remote) == \E attr \in ProfileAttrs : profile[attr] # remote[attr]

\* QualityProfile._create_remote: the call made
_create_remote(profile, profile_name, quality_definitions, api_customformats, ord) ==
    [method |-> "POST", resource |-> "qualityprofile", id |-> 0,
     body |-> [name |-> profile_name]
                  @@ profile_remote_attrs(profile, quality_definitions, api_customformats,
                                          group_ids_of(profile["qualities"]), ord)]

\* The remote name of each mapped field (lines 291-328)
profile_remote_name(attr) ==
    CASE attr = "minimum_custom_format_score" -> "minFormatScore"
      [] attr = "upgrade_until_custom_format_score" -> "cutoffFormatScore"
      [] attr = "minimum_custom_format_score_increment" -> "minUpgradeFormatScore"
      [] attr = "custom_formats" -> "formatItems"
      [] attr = "upgrades_allowed" -> "upgradeAllowed"
      [] attr = "upgrade_until" -> "cutoff"
      [] attr = "qualities" -> "items"

\* Mutant: the PUT carries only the fields that differ.
_update_remote_changed_only(profile, remote, profile_id, profile_name, quality_definitions, api_customformats, ord) ==
    LET every == profile_remote_attrs(profile, quality_definitions, api_customformats,
                                      group_ids_of(profile["qualities"]), ord)
        differ == {profile_remote_name(attr) :
                      attr \in {a \in ProfileAttrs : profile[a] # remote[a]}}
    IN  IF profile_changed(profile, remote)
        THEN <<[method |-> "PUT", resource |-> "qualityprofile", id |-> profile_id,
                body |-> [id |-> profile_id, name |-> profile_name]
                             @@ [n \in differ |-> every[n]]]>>
        ELSE <<>>

\* QualityProfile._update_remote: the calls made (one PUT, or none)
_update_remote(profile, remote, profile_id, profile_name, quality_definitions, api_customformats, ord) ==
    IF profile_changed(profile, remote)
    THEN <<[method |-> "PUT", resource |-> "qualityprofile", id |-> profile_id,
            body |-> [id |-> profile_id, name |-> profile_name]
                         @@ profile_remote_attrs(profile, quality_definitions,
                                                 api_customformats,
                                                 group_ids_of(profile["qualities"]), ord)]>>
    ELSE <<>>

\* profile_ids: {profile_json["name"]: profile_json["id"] for ...}
profile_id_of(api_profiles, profile_name) ==
    api_profiles[Max({k \in DOMAIN api_profiles : api_profiles[k].name = profile_name})].id

\* Mutant: the remote instance from_remote gave is not consulted.
profiles_update_remote_entry_ignores_remote(definitions, i, remote, fetched, quality_definitions, api_customformats, ord, acc) ==
    IF ~CanEncode(definitions[i].value, quality_definitions, api_customformats)
    THEN [ok |-> FALSE, raised |-> <<"KeyError", definitions[i].key>>] @@ acc
    ELSE LET call == _create_remote(definitions[i].value, definitions[i].key,
                                    quality_definitions, api_customformats, ord)
         IN  [ok |-> TRUE, api |-> ApiPost(acc.api, call.body),
              calls |-> Append(acc.calls, call), changed |-> TRUE]

\* One turn of the loop of SonarrQualityProfilesSettingsConfig.update_remote
\* (lines 534-554), for entry i of the local definitions. `fetched` is the
\* GET of the profiles made before the loop, acc.api the instance as it is
\* when the turn's call is served.
profiles_update_remote_entry(definitions, i, remote, fetched, quality_definitions, api_customformats, ord, acc) ==
    LET profile_name == definitions[i].key
        profile == definitions[i].value
    IN  IF ~CanEncode(profile, quality_definitions, api_customformats)
        THEN [ok |-> FALSE, raised |-> <<"KeyError", profile_name>>] @@ acc
        ELSE IF ~DictHas(remote, profile_name)
        THEN LET call == _create_remote(profile, profile_name, quality_definitions,
                                        api_customformats, ord)
             IN  [ok |-> TRUE, api |-> ApiPost(acc.api, call.body),
                  calls |-> Append(acc.calls, call), changed |-> TRUE]
        ELSE LET made == _update_remote(profile, DictGet(remote, profile_name),
                                        profile_id_of(fetched, profile_name),
                                        profile_name, quality_definitions,
                                        api_customformats, ord)
             IN  IF Len(made) = 0 THEN [ok |-> TRUE] @@ acc
                 ELSE [ok |-> TRUE, api |-> ApiPut(acc.api, made[1].id, made[1].body),
                       calls |-> acc.calls \o made, changed |-> TRUE]

\* The loop of SonarrQualityProfilesSettingsConfig.update_remote from entry
\* i on; an entry that raises ends it.
RECURSIVE profiles_update_remote_from(_, _, _, _, _, _, _, _)
profiles_update_remote_from(definitions, i, remote, fetched, quality_definitions, api_customformats, ord, acc) ==
    IF i > Len(definitions) THEN [ok |-> TRUE] @@ acc
    ELSE LET r == profiles_update_remote_entry(definitions, i, remote, fetched,
                                               quality_definitions, api_customformats, ord, acc)
         IN  IF ~r.ok THEN r
             ELSE profiles_update_remote_from(definitions, i + 1, remote, fetched,
                                              quality_definitions, api_customformats, ord,
                                              [api |-> r.api, calls |-> r.calls,
                                               changed |-> r.changed])

\* SonarrQualityProfilesSettingsConfig.update_remote
profiles_update_remote(definitions, remote, api_profiles, api_definitions, api_customformats, ord) ==
    profiles_update_remote_from(definitions, 1, remote, api_profiles,
                                quality_definitions_of(api_definitions),
                                api_customformats, ord,
                                [api |-> api_profiles, calls |-> <<>>, changed |-> FALSE])

\* The loop of SonarrQualityProfilesSettingsConfig.delete_remote from entry
\* i of the remote definitions on.
RECURSIVE profiles_delete_remote_from(_, _, _, _, _, _)
profiles_delete_remote_from(definitions, delete_unmanaged, remote, i, fetched, acc) ==
    IF i > Len(remote) THEN [ok |-> TRUE] @@ acc
    ELSE IF ~DictHas(definitions, remote[i].key) /\ delete_unmanaged
         THEN LET profile_id == profile_id_of(fetched, remote[i].key)
              IN  profiles_delete_remote_from(definitions, delete_unmanaged, remote, i + 1,
                      fetched,
                      [api |-> ApiDelete(acc.api, profile_id),
                       calls |-> Append(acc.calls,
                                        [method |-> "DELETE", resource |-> "qualityprofile",
                                         id |-> profile_id]),
                       changed |-> TRUE])
         ELSE profiles_delete_remote_from(definitions, delete_unmanaged, remote, i + 1,
                                          fetched, acc)

\* Mutant: unmanaged profiles are deleted whatever delete_unmanaged says.
profiles_delete_remote_ignores_flag(definitions, delete_unmanaged, remote, api_profiles) ==
    profiles_delete_remote_from(definitions, TRUE, remote, 1, api_profiles,
                                [api |-> api_profiles, calls |-> <<>>, changed |-> FALSE])

\* SonarrQualityProfilesSettingsConfig.delete_remote
profiles_delete_remote(definitions, delete_unmanaged, remote, api_profiles) ==
    profiles_delete_remote_from(definitions, delete_unmanaged, remote, 1, api_profiles,
                                [api |-> api_profiles, calls |-> <<>>, changed |-> FALSE])

(***************************************************************************)
(* config/quality.py: SonarrQualitySettingsConfig._render                  *)
(*                                                                         *)
(* A file of the quality-size directory is [trash_id, qualities], its      *)
(* qualities a list of [quality, min, preferred, max] (JSON null is None).  *)
(***************************************************************************)
\* str.lower() on the ids the files are given
Lower(id) == IF id = "BEF9" THEN "bef9" ELSE id

\* The body of the loop over quality_json["qualities"] (lines 190-198)
render_definition(definitions, definition_json) ==
    LET definition_name == definition_json.quality
        made == QualityDefinitionNew([title |-> None,
                                      min |-> definition_json.min,
                                      preferred |-> definition_json.preferred,
                                      max |-> definition_json.max])
    IN  IF DictHas(definitions, definition_name)
        THEN [ok |-> TRUE, definitions |-> definitions, raised |-> None]
        ELSE IF made.ok
        THEN [ok |-> TRUE, definitions |-> DictSet(definitions, definition_name, made.value),
              raised |-> None]
        ELSE [ok |-> FALSE, definitions |-> definitions,
              raised |-> Some(<<"ValidationError", definition_name>>)]

\* The loop over quality_json["qualities"] from entry i on
RECURSIVE render_qualities_from(_, _, _)
render_qualities_from(definitions, qualities, i) ==
    IF i > Len(qualities) THEN [ok |-> TRUE, definitions |-> definitions, raised |-> None]
    ELSE LET r == render_definition(definitions, qualities[i])
         IN  IF r.ok THEN render_qualities_from(r.definitions, qualities, i + 1) ELSE r

\* SonarrQualitySettingsConfig._render
_render(trash_id, files, definitions) ==
    LET matching == {k \in DOMAIN files : Lower(files[k].trash_id) = Val(trash_id)}
    IN  IF IsNone(trash_id) \/ Val(trash_id) = ""
        THEN [ok |-> TRUE, definitions |-> definitions, raised |-> None]
        ELSE IF matching = {}
        THEN [ok |-> FALSE, definitions |-> definitions,
              raised |-> Some(<<"ConfigTrashIDNotFoundError", Val(trash_id)>>)]
        ELSE render_qualities_from(definitions, files[Min(matching)].qualities, 1)

\* The qualities Sonarr knows, and the ids it gives them.
QualityNames == {"SDTV", "DVD", "Bluray-480p"}
QualityId(n) == CASE n = "SDTV" -> 1 [] n = "DVD" -> 2 [] n = "Bluray-480p" -> 13

\* Group names; a group may be named like a quality.
GroupNames == {"WEB", "DVD"}

MaxMembers == 2
MaxQualities == 2

\* The entries a `qualities` list is made of, over the quality names `names`.
QualityEntries(names) ==
    {Str(n) : n \in names}
        \cup {QualityGroup(g, ms) : g \in GroupNames,
                                    ms \in {m \in SUBSET names :
                                               Cardinality(m) \in 1..MaxMembers}}

QualityLists(names) == UNION {[1..n -> QualityEntries(names)] : n \in 0..MaxQualities}

\* GET /api/v3/qualitydefinition of an instance with the titles `title`:
\* one definition per quality.
ApiDefinitions(title) ==
    <<[id |-> 1, quality |-> [id |-> QualityId("SDTV"), name |-> "SDTV"],
       title |-> title["SDTV"], weight |-> 1,
       minSize |-> Some(2 * Unit), preferredSize |-> Some(95 * Unit),
       maxSize |-> Some(100 * Unit)],
      [id |-> 2, quality |-> [id |-> QualityId("DVD"), name |-> "DVD"],
       title |-> title["DVD"], weight |-> 2,
       minSize |-> Some(2 * Unit), preferredSize |-> Some(95 * Unit),
       maxSize |-> Some(100 * Unit)],
      [id |-> 3, quality |-> [id |-> QualityId("Bluray-480p"), name |-> "Bluray-480p"],
       title |-> title["Bluray-480p"], weight |-> 3,
       minSize |-> Some(2 * Unit), preferredSize |-> Some(95 * Unit),
       maxSize |-> Some(100 * Unit)]>>

\* Sonarr's own titles: each quality is titled by its name.
DefaultTitles == [n \in QualityNames |-> n]

\* Some iteration order of the names S (where the order does not matter).
AnyOrderOf(S) == CHOOSE ord \in Orders(S) : TRUE
AnyOrder == AnyOrderOf(QualityNames)

QPLocalInputs ==
    [upgrades_allowed : BOOLEAN,
     qualities : QualityLists(QualityNames),
     minimum_custom_format_score : {0, 1},
     upgrade_until_custom_format_score : {0},
     minimum_custom_format_score_increment : {1},
     custom_formats : {<<>>},
     upgrade_until : {None, Some("")} \cup {Some(n) : n \in QualityNames \cup GroupNames}]

\* Remote profiles: the items of some valid list of qualities, any cutoff
\* (also one that is no item's id), upgrades allowed or not.
QPRemoteInputs ==
    {[id |-> 1, name |-> "P",
      upgradeAllowed |-> b,
      cutoff |-> c,
      items |-> _encode_qualities(quality_definitions_of(ApiDefinitions(DefaultTitles)),
                                  group_ids_of(qs), qs, AnyOrder),
      minFormatScore |-> 0, cutoffFormatScore |-> 0, minUpgradeFormatScore |-> 1,
      formatItems |-> <<>>] :
        b \in BOOLEAN,
        c \in {QualityId(n) : n \in QualityNames} \cup {1001, 1002, 99},
        qs \in {l \in QualityLists(QualityNames) :
                   Len(l) > 0 /\ validate_qualities(l, AnyOrder).ok}}

(***************************************************************************)
(* Specifications. Each one runs one part of the program over its inputs   *)
(* and holds the variables of the other parts at rest.                     *)
(***************************************************************************)
AtRest ==
    [qdIn |-> [title |-> <<>>, min |-> <<>>, preferred |-> <<>>, max |-> <<>>],
     qdOut |-> <<>>, qdPc |-> "done",
     qpSrc |-> "local", qpIn |-> <<>>, qpOut |-> <<>>, qpPc |-> "done",
     cfIn |-> <<>>, cfApi |-> <<>>, cfOut |-> <<>>, cfWire |-> <<>>, cfBack |-> <<>>,
     cfPc |-> "done",
     cdApi |-> <<>>, cdQualities |-> <<>>, cdWire |-> <<>>, cdBack |-> <<>>,
     cdPc |-> "done",
     rcLocal |-> <<>>, rcApiDefs |-> <<>>, rcApiProfiles |-> <<>>, rcApiCfs |-> <<>>,
     rcRemote |-> <<>>, rcTodo |-> {}, rcCalls |-> <<>>, rcChanged |-> <<>>,
     rcPass |-> 0, rcPc |-> "off",
     rnTrashId |-> <<>>, rnFiles |-> <<>>, rnDefinitions |-> <<>>, rnRaised |-> <<>>, rnPc |-> "done",
     ccLocal |-> <<>>, ccApiProfiles |-> <<>>, ccRemote |-> <<>>, ccCalls |-> <<>>, ccPc |-> <<>>, ccSerial |-> TRUE,
     ccFetched |-> <<>>, ccAt |-> <<>>, ccChanged |-> <<>>]

QDInit ==
    /\ qdIn \in [title : {None}, min : OptSize, preferred : OptSize, max : OptSize]
    /\ qdOut = None
    /\ qdPc = "new"
    \* the other parts are at rest
    /\ qpSrc = AtRest.qpSrc /\ qpIn = AtRest.qpIn /\ qpOut = AtRest.qpOut
    /\ qpPc = AtRest.qpPc
    /\ cfIn = AtRest.cfIn /\ cfApi = AtRest.cfApi /\ cfOut = AtRest.cfOut
    /\ cfWire = AtRest.cfWire /\ cfBack = AtRest.cfBack /\ cfPc = AtRest.cfPc
    /\ cdApi = AtRest.cdApi /\ cdQualities = AtRest.cdQualities /\ cdWire = AtRest.cdWire
    /\ cdBack = AtRest.cdBack /\ cdPc = AtRest.cdPc
    /\ rcLocal = AtRest.rcLocal /\ rcApiDefs = AtRest.rcApiDefs /\ rcApiProfiles = AtRest.rcApiProfiles
    /\ rcApiCfs = AtRest.rcApiCfs /\ rcRemote = AtRest.rcRemote /\ rcTodo = AtRest.rcTodo
    /\ rcCalls = AtRest.rcCalls /\ rcChanged = AtRest.rcChanged /\ rcPass = AtRest.rcPass
    /\ rcPc = AtRest.rcPc
    /\ rnTrashId = AtRest.rnTrashId /\ rnFiles = AtRest.rnFiles /\ rnDefinitions = AtRest.rnDefinitions
    /\ rnRaised = AtRest.rnRaised /\ rnPc = AtRest.rnPc
    /\ ccLocal = AtRest.ccLocal /\ ccApiProfiles = AtRest.ccApiProfiles /\ ccRemote = AtRest.ccRemote
    /\ ccCalls = AtRest.ccCalls /\ ccPc = AtRest.ccPc /\ ccSerial = AtRest.ccSerial
    /\ ccFetched = AtRest.ccFetched /\ ccAt = AtRest.ccAt /\ ccChanged = AtRest.ccChanged

QDConstruct ==
    /\ qdPc = "new"
    /\ qdOut' = Some(QualityDefinitionNew(qdIn))
    /\ qdPc' = "done"
    /\ UNCHANGED <<qdIn, qdRest>>

QDNext == QDConstruct

\* QualityDefinition construction, over every sampled input.
SpecQD == QDInit /\ [][QDNext]_vars

\* The constructor returned an instance (no ValidationError).
QDConstructed == qdPc = "done" /\ Val(qdOut).ok
QDValue == Val(qdOut).value

QPInit ==
    /\ \/ qpSrc = "local" /\ qpIn \in QPLocalInputs
       \/ qpSrc = "remote" /\ qpIn \in QPRemoteInputs
    /\ qpOut = None
    /\ qpPc = "new"
    \* the other parts are at rest
    /\ qdIn = AtRest.qdIn /\ qdOut = AtRest.qdOut /\ qdPc = AtRest.qdPc
    /\ cfIn = AtRest.cfIn /\ cfApi = AtRest.cfApi /\ cfOut = AtRest.cfOut
    /\ cfWire = AtRest.cfWire /\ cfBack = AtRest.cfBack /\ cfPc = AtRest.cfPc
    /\ cdApi = AtRest.cdApi /\ cdQualities = AtRest.cdQualities /\ cdWire = AtRest.cdWire
    /\ cdBack = AtRest.cdBack /\ cdPc = AtRest.cdPc
    /\ rcLocal = AtRest.rcLocal /\ rcApiDefs = AtRest.rcApiDefs /\ rcApiProfiles = AtRest.rcApiProfiles
    /\ rcApiCfs = AtRest.rcApiCfs /\ rcRemote = AtRest.rcRemote /\ rcTodo = AtRest.rcTodo
    /\ rcCalls = AtRest.rcCalls /\ rcChanged = AtRest.rcChanged /\ rcPass = AtRest.rcPass
    /\ rcPc = AtRest.rcPc
    /\ rnTrashId = AtRest.rnTrashId /\ rnFiles = AtRest.rnFiles /\ rnDefinitions = AtRest.rnDefinitions
    /\ rnRaised = AtRest.rnRaised /\ rnPc = AtRest.rnPc
    /\ ccLocal = AtRest.ccLocal /\ ccApiProfiles = AtRest.ccApiProfiles /\ ccRemote = AtRest.ccRemote
    /\ ccCalls = AtRest.ccCalls /\ ccPc = AtRest.ccPc /\ ccSerial = AtRest.ccSerial
    /\ ccFetched = AtRest.ccFetched /\ ccAt = AtRest.ccAt /\ ccChanged = AtRest.ccChanged

\* QualityProfile(**kw) on local configuration
QPConstruct ==
    /\ qpPc = "new"
    /\ qpSrc = "local"
    /\ \E ord \in Orders(QualityNames) : qpOut' = Some(QualityProfileNew(qpIn, ord))
    /\ qpPc' = "done"
    /\ UNCHANGED <<qpSrc, qpIn, qpRest>>

\* QualityProfile._from_remote(profile) on a remote profile
QPFromRemote ==
    /\ qpPc = "new"
    /\ qpSrc = "remote"
    /\ \E ord \in Orders(QualityNames) : qpOut' = Some(_from_remote(qpIn, ord))
    /\ qpPc' = "done"
    /\ UNCHANGED <<qpSrc, qpIn, qpRest>>

QPNext == QPConstruct \/ QPFromRemote

\* QualityProfile construction, from local configuration and from remote JSON.
SpecQP == QPInit /\ [][QPNext]_vars

\* The keyword arguments the constructor was (or would be) called with.
QPKw == IF qpSrc = "local" THEN Ok(qpIn) ELSE get_local_attrs(qpIn)
QPConstructed == qpPc = "done" /\ Val(qpOut).ok
QPValue == Val(qpOut).value
\* The validation error of field `f`, if the constructor raised one.
QPFieldErrors(f) ==
    IF qpPc = "done" /\ ~Val(qpOut).ok /\ "errors" \in DOMAIN Val(qpOut)
    THEN {e[2] : e \in {x \in Val(qpOut).errors : x[1] = f}}
    ELSE {}

\* --- custom_formats: validate, encode, decode ---

MaxCustomFormats == 3

CustomFormatScores ==
    {CustomFormatScore(CustomFormatNames[i], sc) :
        i \in DOMAIN CustomFormatNames, sc \in {None, Some(0), Some(5), Some(10)}}

\* sonarr.CustomFormatApi(api_client).list_custom_format(), as the dict
\* api_customformats: every custom format, or all but "cf-c".
ApiCustomFormats ==
    {<<[key |-> "cf-c", value |-> [id |-> 1, name |-> "cf-c"]],
       [key |-> "cf-a", value |-> [id |-> 2, name |-> "cf-a"]],
       [key |-> "cf-b", value |-> [id |-> 3, name |-> "cf-b"]]>>,
     <<[key |-> "cf-a", value |-> [id |-> 2, name |-> "cf-a"]],
       [key |-> "cf-b", value |-> [id |-> 3, name |-> "cf-b"]]>>}

CFInit ==
    /\ cfIn \in UNION {[1..n -> CustomFormatScores] : n \in 0..MaxCustomFormats}
    /\ cfApi \in ApiCustomFormats
    /\ cfOut = None
    /\ cfWire = None
    /\ cfBack = None
    /\ cfPc = "new"
    \* the other parts are at rest
    /\ qdIn = AtRest.qdIn /\ qdOut = AtRest.qdOut /\ qdPc = AtRest.qdPc
    /\ qpSrc = AtRest.qpSrc /\ qpIn = AtRest.qpIn /\ qpOut = AtRest.qpOut
    /\ qpPc = AtRest.qpPc
    /\ cdApi = AtRest.cdApi /\ cdQualities = AtRest.cdQualities /\ cdWire = AtRest.cdWire
    /\ cdBack = AtRest.cdBack /\ cdPc = AtRest.cdPc
    /\ rcLocal = AtRest.rcLocal /\ rcApiDefs = AtRest.rcApiDefs /\ rcApiProfiles = AtRest.rcApiProfiles
    /\ rcApiCfs = AtRest.rcApiCfs /\ rcRemote = AtRest.rcRemote /\ rcTodo = AtRest.rcTodo
    /\ rcCalls = AtRest.rcCalls /\ rcChanged = AtRest.rcChanged /\ rcPass = AtRest.rcPass
    /\ rcPc = AtRest.rcPc
    /\ rnTrashId = AtRest.rnTrashId /\ rnFiles = AtRest.rnFiles /\ rnDefinitions = AtRest.rnDefinitions
    /\ rnRaised = AtRest.rnRaised /\ rnPc = AtRest.rnPc
    /\ ccLocal = AtRest.ccLocal /\ ccApiProfiles = AtRest.ccApiProfiles /\ ccRemote = AtRest.ccRemote
    /\ ccCalls = AtRest.ccCalls /\ ccPc = AtRest.ccPc /\ ccSerial = AtRest.ccSerial
    /\ ccFetched = AtRest.ccFetched /\ ccAt = AtRest.ccAt /\ ccChanged = AtRest.ccChanged

\* QualityProfile(custom_formats=...): the validator of the field
CFValidate ==
    /\ cfPc = "new"
    /\ cfOut' = Some(validate_custom_format(cfIn))
    /\ cfPc' = IF validate_custom_format(cfIn).ok THEN "validated" ELSE "failed"
    /\ UNCHANGED <<cfIn, cfApi, cfWire, cfBack, cfRest>>

\* The "formatItems" encoder of the remote map, on the validated list;
\* api_customformats[cfs.name] raises KeyError on an unknown name.
CFEncode ==
    /\ cfPc = "validated"
    /\ LET scores == Val(cfOut).value
       IN  IF \A k \in DOMAIN scores : DictHas(cfApi, scores[k].name)
           THEN /\ cfWire' = Some(_custom_formats_encoder(cfApi, scores))
                /\ cfPc' = "encoded"
           ELSE /\ cfWire' = None
                /\ cfPc' = "failed"
    /\ UNCHANGED <<cfIn, cfApi, cfOut, cfBack, cfRest>>

\* The "formatItems" decoder of the remote map, on what was encoded
CFDecode ==
    /\ cfPc = "encoded"
    /\ cfBack' = Some(_custom_formats_decoder(Val(cfWire)))
    /\ cfPc' = "decoded"
    /\ UNCHANGED <<cfIn, cfApi, cfOut, cfWire, cfRest>>

CFNext == CFValidate \/ CFEncode \/ CFDecode

\* The custom format scores of a profile, over every sampled list.
SpecCF == CFInit /\ [][CFNext]_vars

\* --- qualities: encode, decode ---

\* The titles an instance may have: Sonarr's own, or "DVD" retitled.
TitleMaps == {DefaultTitles, [DefaultTitles EXCEPT !["DVD"] = "DVD-R"]}

TitlesOf(api_definitions) == {api_definitions[k].title : k \in DOMAIN api_definitions}

CDInit ==
    /\ cdApi \in {ApiDefinitions(t) : t \in TitleMaps}
    \* a validated list whose names are all keys of the catalog
    /\ cdQualities \in {l \in QualityLists(TitlesOf(cdApi)) :
                           Len(l) > 0
                           /\ validate_qualities(l, AnyOrderOf(TitlesOf(cdApi))).ok}
    /\ cdWire = None
    /\ cdBack = None
    /\ cdPc = "new"
    \* the other parts are at rest
    /\ qdIn = AtRest.qdIn /\ qdOut = AtRest.qdOut /\ qdPc = AtRest.qdPc
    /\ qpSrc = AtRest.qpSrc /\ qpIn = AtRest.qpIn /\ qpOut = AtRest.qpOut
    /\ qpPc = AtRest.qpPc
    /\ cfIn = AtRest.cfIn /\ cfApi = AtRest.cfApi /\ cfOut = AtRest.cfOut
    /\ cfWire = AtRest.cfWire /\ cfBack = AtRest.cfBack /\ cfPc = AtRest.cfPc
    /\ rcLocal = AtRest.rcLocal /\ rcApiDefs = AtRest.rcApiDefs /\ rcApiProfiles = AtRest.rcApiProfiles
    /\ rcApiCfs = AtRest.rcApiCfs /\ rcRemote = AtRest.rcRemote /\ rcTodo = AtRest.rcTodo
    /\ rcCalls = AtRest.rcCalls /\ rcChanged = AtRest.rcChanged /\ rcPass = AtRest.rcPass
    /\ rcPc = AtRest.rcPc
    /\ rnTrashId = AtRest.rnTrashId /\ rnFiles = AtRest.rnFiles /\ rnDefinitions = AtRest.rnDefinitions
    /\ rnRaised = AtRest.rnRaised /\ rnPc = AtRest.rnPc
    /\ ccLocal = AtRest.ccLocal /\ ccApiProfiles = AtRest.ccApiProfiles /\ ccRemote = AtRest.ccRemote
    /\ ccCalls = AtRest.ccCalls /\ ccPc = AtRest.ccPc /\ ccSerial = AtRest.ccSerial
    /\ ccFetched = AtRest.ccFetched /\ ccAt = AtRest.ccAt /\ ccChanged = AtRest.ccChanged

\* The "items" encoder of the remote map with update_remote's catalog
CDEncode ==
    /\ cdPc = "new"
    /\ \E ord \in Orders(TitlesOf(cdApi)) :
           cdWire' = Some(_encode_qualities(quality_definitions_of(cdApi),
                                            group_ids_of(cdQualities), cdQualities, ord))
    /\ cdPc' = "encoded"
    /\ UNCHANGED <<cdApi, cdQualities, cdBack, cdRest>>

\* The "items" decoder of the remote map
CDDecode ==
    /\ cdPc = "encoded"
    /\ cdBack' = Some(_decode_qualities(Val(cdWire)))
    /\ cdPc' = "decoded"
    /\ UNCHANGED <<cdApi, cdQualities, cdWire, cdRest>>

CDNext == CDEncode \/ CDDecode

\* The qualities of a profile, over every valid list and catalog.
SpecCodec == CDInit /\ [][CDNext]_vars

\* --- reconciliation: from_remote, update_remote, delete_remote, repeated ---

MaxPasses == 2

\* api_customformats of the instance: "cf-a" and "cf-b" ("cf-c" is unknown).
RcApiCustomFormats ==
    <<[key |-> "cf-a", value |-> [id |-> 2, name |-> "cf-a"]],
      [key |-> "cf-b", value |-> [id |-> 3, name |-> "cf-b"]]>>

\* The orders a group's members are iterated in.
RcOrders ==
    {AnyOrderOf(QualityNames \cup {"DVD-R"}),
     Reverse(AnyOrderOf(QualityNames \cup {"DVD-R"}))}

\* Local profiles: every valid instance over these keyword arguments.
RcProfileKw ==
    [upgrades_allowed : BOOLEAN,
     qualities : {<<Str("SDTV")>>,
                  <<Str("DVD"), Str("SDTV")>>,
                  <<Str("DVD-R"), Str("SDTV")>>,
                  <<QualityGroup("WEB", {"SDTV", "DVD"}), Str("Bluray-480p")>>},
     minimum_custom_format_score : {0},
     upgrade_until_custom_format_score : {0},
     minimum_custom_format_score_increment : {1},
     custom_formats : {<<>>,
                       <<CustomFormatScore("cf-a", Some(10)), CustomFormatScore("cf-b", Some(5))>>,
                       <<CustomFormatScore("cf-a", Some(5)), CustomFormatScore("cf-b", Some(10))>>,
                       <<CustomFormatScore("cf-a", Some(0))>>,
                       <<CustomFormatScore("cf-c", Some(5))>>},
     upgrade_until : {None, Some("SDTV"), Some("WEB")}]

RcProfiles ==
    {QualityProfileNew(kw, AnyOrder).value :
        kw \in {k \in RcProfileKw : QualityProfileNew(k, AnyOrder).ok}}

\* A profile as the instance holds it.
RcRemoteProfile(id, name, profile) ==
    [id |-> id, name |-> name]
        @@ profile_remote_attrs(profile,
                                quality_definitions_of(ApiDefinitions(DefaultTitles)),
                                RcApiCustomFormats, group_ids_of(profile["qualities"]),
                                AnyOrder)

\* The profiles of RcProfiles with these qualities and custom formats, and
\* upgrades not allowed.
RcProfilesWith(qualities, custom_formats) ==
    {v \in RcProfiles : /\ v["qualities"] = qualities
                        /\ v["custom_formats"] = custom_formats
                        /\ ~v["upgrades_allowed"]}

\* The profiles of the instance before the first pass: none, "P1", or "Any"
\* and "P1".
RcRemoteProfiles ==
    {<<>>}
        \cup {<<RcRemoteProfile(1, "P1", p)>> : p \in RcProfilesWith(<<Str("SDTV")>>, <<>>)}
        \cup {<<RcRemoteProfile(1, "Any", p), RcRemoteProfile(2, "P1", q)>> :
                 p \in RcProfilesWith(<<Str("DVD"), Str("SDTV")>>, <<>>),
                 q \in RcProfilesWith(
                          <<QualityGroup("WEB", {"SDTV", "DVD"}), Str("Bluray-480p")>>,
                          <<CustomFormatScore("cf-a", Some(10)),
                            CustomFormatScore("cf-b", Some(5))>>)}

\* A valid local quality definition with this title and minimum.
RcDefinition(title, min) ==
    QualityDefinitionNew([title |-> title, min |-> Some(min),
                          preferred |-> Some(95 * Unit), max |-> Some(100 * Unit)]).value

\* The local `definitions` of the quality settings.
RcLocalQuality ==
    {<<>>,
     <<[key |-> "DVD", value |-> RcDefinition(None, 2 * Unit)]>>,
     <<[key |-> "SDTV", value |-> RcDefinition(None, 3 * Unit)],
       [key |-> "DVD", value |-> RcDefinition(None, 2 * Unit)]>>,
     <<[key |-> "DVD", value |-> RcDefinition(Some(""), 2 * Unit)]>>,
     <<[key |-> "DVD", value |-> RcDefinition(Some("DVD-R"), 2 * Unit)]>>,
     <<[key |-> "HDTV-720p", value |-> RcDefinition(None, 2 * Unit)]>>}

\* The local `definitions` of the profile settings: none, "P1", or "P1" and "P2".
RcLocalProfiles ==
    {<<>>}
        \cup {<<[key |-> "P1", value |-> v]>> : v \in RcProfiles}
        \cup {<<[key |-> "P1", value |-> v], [key |-> "P2", value |-> w]>> :
                 v \in RcProfiles, w \in RcProfilesWith(<<Str("SDTV")>>, <<>>)}

NoneChanged == [quality |-> FALSE, profiles |-> FALSE, delete |-> FALSE]

RCInit ==
    /\ rcLocal \in [quality : RcLocalQuality,
                    delete_unmanaged : BOOLEAN,
                    definitions : RcLocalProfiles]
    /\ rcApiDefs \in {ApiDefinitions(t) : t \in TitleMaps}
    /\ rcApiProfiles \in RcRemoteProfiles
    /\ rcApiCfs = RcApiCustomFormats
    /\ rcRemote = None
    /\ rcTodo = {}
    /\ rcCalls = <<>>
    /\ rcChanged = NoneChanged
    /\ rcPass = 0
    /\ rcPc = "start"
    \* the other parts are at rest
    /\ qdIn = AtRest.qdIn /\ qdOut = AtRest.qdOut /\ qdPc = AtRest.qdPc
    /\ qpSrc = AtRest.qpSrc /\ qpIn = AtRest.qpIn /\ qpOut = AtRest.qpOut
    /\ qpPc = AtRest.qpPc
    /\ cfIn = AtRest.cfIn /\ cfApi = AtRest.cfApi /\ cfOut = AtRest.cfOut
    /\ cfWire = AtRest.cfWire /\ cfBack = AtRest.cfBack /\ cfPc = AtRest.cfPc
    /\ cdApi = AtRest.cdApi /\ cdQualities = AtRest.cdQualities /\ cdWire = AtRest.cdWire
    /\ cdBack = AtRest.cdBack /\ cdPc = AtRest.cdPc
    /\ rnTrashId = AtRest.rnTrashId /\ rnFiles = AtRest.rnFiles /\ rnDefinitions = AtRest.rnDefinitions
    /\ rnRaised = AtRest.rnRaised /\ rnPc = AtRest.rnPc
    /\ ccLocal = AtRest.ccLocal /\ ccApiProfiles = AtRest.ccApiProfiles /\ ccRemote = AtRest.ccRemote
    /\ ccCalls = AtRest.ccCalls /\ ccPc = AtRest.ccPc /\ ccSerial = AtRest.ccSerial
    /\ ccFetched = AtRest.ccFetched /\ ccAt = AtRest.ccAt /\ ccChanged = AtRest.ccChanged

\* A pass starts: from_remote of both settings gives the remote instance
\* the handlers compare with.
RcFromRemote ==
    /\ rcPc = "start"
    /\ rcPass < MaxPasses
    /\ rcPass' = rcPass + 1
    /\ rcCalls' = <<>>
    /\ rcChanged' = NoneChanged
    /\ LET quality == quality_from_remote(rcApiDefs)
           profiles == profiles_from_remote(rcApiProfiles, AnyOrder)
       IN  IF quality.ok /\ profiles.ok
           THEN /\ rcRemote' = Some([quality |-> quality.value,
                                     profiles |-> profiles.value])
                /\ rcTodo' = {"quality", "profiles"}
                /\ rcPc' = "update"
           ELSE /\ rcRemote' = None
                /\ rcTodo' = {}
                /\ rcPc' = "failed"
    /\ UNCHANGED <<rcLocal, rcApiDefs, rcApiProfiles, rcApiCfs, rcRest>>

\* SonarrQualitySettingsConfig.update_remote, the whole handler
RcQualityUpdateRemote ==
    /\ rcPc = "update"
    /\ "quality" \in rcTodo
    /\ LET r == quality_update_remote(rcLocal.quality, Val(rcRemote).quality, rcApiDefs)
       IN  /\ rcApiDefs' = r.api
           /\ rcCalls' = rcCalls \o r.calls
           /\ rcChanged' = [rcChanged EXCEPT !.quality = r.changed]
           /\ rcTodo' = IF r.ok THEN rcTodo \ {"quality"} ELSE rcTodo
           /\ rcPc' = IF ~r.ok THEN "failed"
                      ELSE IF rcTodo = {"quality"} THEN "delete" ELSE "update"
    /\ UNCHANGED <<rcLocal, rcApiProfiles, rcApiCfs, rcRemote, rcPass, rcRest>>

\* SonarrQualityProfilesSettingsConfig.update_remote, the whole handler
RcProfilesUpdateRemote ==
    /\ rcPc = "update"
    /\ "profiles" \in rcTodo
    /\ \E ord \in RcOrders :
        LET r == profiles_update_remote(rcLocal.definitions, Val(rcRemote).profiles,
                                        rcApiProfiles, rcApiDefs, rcApiCfs, ord)
        IN  /\ rcApiProfiles' = r.api
            /\ rcCalls' = rcCalls \o r.calls
            /\ rcChanged' = [rcChanged EXCEPT !.profiles = r.changed]
            /\ rcTodo' = IF r.ok THEN rcTodo \ {"profiles"} ELSE rcTodo
            /\ rcPc' = IF ~r.ok THEN "failed"
                       ELSE IF rcTodo = {"profiles"} THEN "delete" ELSE "update"
    /\ UNCHANGED <<rcLocal, rcApiDefs, rcApiCfs, rcRemote, rcPass, rcRest>>

\* SonarrQualityProfilesSettingsConfig.delete_remote, the whole handler;
\* it ends the pass.
RcProfilesDeleteRemote ==
    /\ rcPc = "delete"
    /\ LET r == profiles_delete_remote(rcLocal.definitions, rcLocal.delete_unmanaged,
                                       Val(rcRemote).profiles, rcApiProfiles)
       IN  /\ rcApiProfiles' = r.api
           /\ rcCalls' = rcCalls \o r.calls
           /\ rcChanged' = [rcChanged EXCEPT !.delete = r.changed]
    /\ rcPc' = "start"
    /\ UNCHANGED <<rcLocal, rcApiDefs, rcApiCfs, rcRemote, rcTodo, rcPass, rcRest>>

Next ==
    \/ RcFromRemote
    \/ RcQualityUpdateRemote
    \/ RcProfilesUpdateRemote
    \/ RcProfilesDeleteRemote

\* Reconciliation passes, one after the other, with nothing else changing
\* the instance.
Spec == RCInit /\ [][Next]_vars

\* --- _render: definitions seeded from a TRaSH-Guides quality-size file ---

MaxDatasetQualities == 2

\* The values a dataset entry gives: valid ones, the upper bound, null, and
\* a preferred that is not 1 greater than min.
DatasetSizes ==
    {[min |-> Some(2 * Unit), preferred |-> Some(95 * Unit), max |-> Some(100 * Unit)],
     [min |-> Some(5 * Unit), preferred |-> Some(995 * Unit), max |-> Some(1000 * Unit)],
     [min |-> Some(2 * Unit), preferred |-> None, max |-> Some(100 * Unit)],
     [min |-> Some(5 * Unit), preferred |-> Some(5 * Unit), max |-> None]}

DatasetEntries ==
    {[quality |-> n, min |-> v.min, preferred |-> v.preferred, max |-> v.max] :
        n \in {"SDTV", "DVD"}, v \in DatasetSizes}

DatasetFiles ==
    [trash_id : {"BEF9", "bef9", "aaaa"},
     qualities : UNION {[1..n -> DatasetEntries] : n \in 0..MaxDatasetQualities}]

\* A second file of the directory, of either id.
OtherFiles ==
    {[trash_id |-> id,
      qualities |-> <<[quality |-> "Bluray-480p", min |-> Some(2 * Unit),
                       preferred |-> Some(95 * Unit), max |-> Some(100 * Unit)]>>] :
        id \in {"bef9", "aaaa"}}

RNInit ==
    /\ rnTrashId \in {None, Some("bef9")}
    /\ rnFiles \in {<<>>} \cup {<<f>> : f \in DatasetFiles}
                      \cup {<<g, f>> : g \in OtherFiles, f \in DatasetFiles}
    /\ rnDefinitions \in {<<>>,
                          <<[key |-> "DVD", value |-> RcDefinition(None, 3 * Unit)]>>,
                          <<[key |-> "DVD", value |-> RcDefinition(Some("DVD-R"), 3 * Unit)],
                            [key |-> "SDTV", value |-> RcDefinition(None, 2 * Unit)]>>}
    /\ rnRaised = None
    /\ rnPc = "new"
    \* the other parts are at rest
    /\ qdIn = AtRest.qdIn /\ qdOut = AtRest.qdOut /\ qdPc = AtRest.qdPc
    /\ qpSrc = AtRest.qpSrc /\ qpIn = AtRest.qpIn /\ qpOut = AtRest.qpOut
    /\ qpPc = AtRest.qpPc
    /\ cfIn = AtRest.cfIn /\ cfApi = AtRest.cfApi /\ cfOut = AtRest.cfOut
    /\ cfWire = AtRest.cfWire /\ cfBack = AtRest.cfBack /\ cfPc = AtRest.cfPc
    /\ cdApi = AtRest.cdApi /\ cdQualities = AtRest.cdQualities /\ cdWire = AtRest.cdWire
    /\ cdBack = AtRest.cdBack /\ cdPc = AtRest.cdPc
    /\ rcLocal = AtRest.rcLocal /\ rcApiDefs = AtRest.rcApiDefs /\ rcApiProfiles = AtRest.rcApiProfiles
    /\ rcApiCfs = AtRest.rcApiCfs /\ rcRemote = AtRest.rcRemote /\ rcTodo = AtRest.rcTodo
    /\ rcCalls = AtRest.rcCalls /\ rcChanged = AtRest.rcChanged /\ rcPass = AtRest.rcPass
    /\ rcPc = AtRest.rcPc
    /\ ccLocal = AtRest.ccLocal /\ ccApiProfiles = AtRest.ccApiProfiles /\ ccRemote = AtRest.ccRemote
    /\ ccCalls = AtRest.ccCalls /\ ccPc = AtRest.ccPc /\ ccSerial = AtRest.ccSerial
    /\ ccFetched = AtRest.ccFetched /\ ccAt = AtRest.ccAt /\ ccChanged = AtRest.ccChanged

\* SonarrQualitySettingsConfig._render(), the whole call
RNRender ==
    /\ rnPc = "new"
    /\ LET r == _render(rnTrashId, rnFiles, rnDefinitions)
       IN  /\ rnDefinitions' = r.definitions
           /\ rnRaised' = r.raised
           /\ rnPc' = IF r.ok THEN "done" ELSE "failed"
    /\ UNCHANGED <<rnTrashId, rnFiles, rnRest>>

RNNext == RNRender

\* Rendering, over every sampled directory and local configuration.
SpecRender == RNInit /\ [][RNNext]_vars

\* --- passes over the profiles of one instance, run at the same time ---

MaxConcurrent == 2

\* The passes: each is from_remote, update_remote, delete_remote of the
\* profile settings, with the same local configuration (delete_unmanaged
\* left at False, line 481). A pass is a sequence of HTTP calls, and a call
\* of another pass may be served between any two of them.
Passes == 1..MaxConcurrent

\* The local definitions of the passes: none, "P1", or "P1" and "P2", with
\* upgrades not allowed, qualities the instance knows, and custom formats
\* none or unknown to the instance.
CcLocalProfiles ==
    {l \in RcLocalProfiles :
        \A k \in DOMAIN l :
            /\ ~l[k].value["upgrades_allowed"]
            /\ l[k].value["qualities"] # <<Str("DVD-R"), Str("SDTV")>>
            /\ l[k].value["custom_formats"] \in {<<>>, <<CustomFormatScore("cf-c", Some(5))>>}}

CCInit ==
    /\ ccLocal \in CcLocalProfiles
    /\ ccApiProfiles \in RcRemoteProfiles
    /\ ccRemote = [p \in Passes |-> None]
    /\ ccFetched = [p \in Passes |-> <<>>]
    /\ ccAt = [p \in Passes |-> 1]
    /\ ccCalls = [p \in Passes |-> <<>>]
    /\ ccChanged = [p \in Passes |-> FALSE]
    /\ ccPc = [p \in Passes |-> "start"]
    /\ ccSerial = TRUE
    \* the other parts are at rest
    /\ qdIn = AtRest.qdIn /\ qdOut = AtRest.qdOut /\ qdPc = AtRest.qdPc
    /\ qpSrc = AtRest.qpSrc /\ qpIn = AtRest.qpIn /\ qpOut = AtRest.qpOut
    /\ qpPc = AtRest.qpPc
    /\ cfIn = AtRest.cfIn /\ cfApi = AtRest.cfApi /\ cfOut = AtRest.cfOut
    /\ cfWire = AtRest.cfWire /\ cfBack = AtRest.cfBack /\ cfPc = AtRest.cfPc
    /\ cdApi = AtRest.cdApi /\ cdQualities = AtRest.cdQualities /\ cdWire = AtRest.cdWire
    /\ cdBack = AtRest.cdBack /\ cdPc = AtRest.cdPc
    /\ rcLocal = AtRest.rcLocal /\ rcApiDefs = AtRest.rcApiDefs /\ rcApiProfiles = AtRest.rcApiProfiles
    /\ rcApiCfs = AtRest.rcApiCfs /\ rcRemote = AtRest.rcRemote /\ rcTodo = AtRest.rcTodo
    /\ rcCalls = AtRest.rcCalls /\ rcChanged = AtRest.rcChanged /\ rcPass = AtRest.rcPass
    /\ rcPc = AtRest.rcPc
    /\ rnTrashId = AtRest.rnTrashId /\ rnFiles = AtRest.rnFiles /\ rnDefinitions = AtRest.rnDefinitions
    /\ rnRaised = AtRest.rnRaised /\ rnPc = AtRest.rnPc

\* Pass p starts: SonarrQualityProfilesSettingsConfig.from_remote (one GET)
\* gives it the remote instance its handlers compare with.
CcFromRemote(p) ==
    /\ ccPc[p] = "start"
    /\ LET profiles == profiles_from_remote(ccApiProfiles, AnyOrder)
       IN  IF profiles.ok
           THEN /\ ccRemote' = [ccRemote EXCEPT ![p] = Some(profiles.value)]
                /\ ccPc' = [ccPc EXCEPT ![p] = "update"]
           ELSE /\ ccRemote' = ccRemote
                /\ ccPc' = [ccPc EXCEPT ![p] = "failed"]
    /\ ccSerial' = (ccSerial /\ \A o \in Passes \ {p} :
                                    ccPc[o] \notin {"update", "loop", "delete"})
    /\ UNCHANGED <<ccLocal, ccApiProfiles, ccFetched, ccAt, ccCalls, ccChanged, ccRest>>

\* update_remote of pass p up to its loop (lines 514-532): the GET of the
\* profiles for profile_ids. The quality definitions and the custom formats
\* it gets next are changed by no pass here.
CcProfilesUpdateRemoteGet(p) ==
    /\ ccPc[p] = "update"
    /\ ccFetched' = [ccFetched EXCEPT ![p] = ccApiProfiles]
    /\ ccAt' = [ccAt EXCEPT ![p] = 1]
    /\ ccChanged' = [ccChanged EXCEPT ![p] = FALSE]
    /\ ccPc' = [ccPc EXCEPT ![p] = IF Len(ccLocal) = 0 THEN "delete" ELSE "loop"]
    /\ UNCHANGED <<ccLocal, ccApiProfiles, ccRemote, ccCalls, ccSerial, ccRest>>

\* One turn of update_remote's loop in pass p (lines 534-554): the POST or
\* PUT of one local profile, or nothing; the return after the last one.
CcProfilesUpdateRemoteEntry(p) ==
    /\ ccPc[p] = "loop"
    /\ \E ord \in RcOrders :
        LET r == profiles_update_remote_entry(
                     ccLocal, ccAt[p], Val(ccRemote[p]), ccFetched[p],
                     quality_definitions_of(ApiDefinitions(DefaultTitles)),
                     RcApiCustomFormats, ord,
                     [api |-> ccApiProfiles, calls |-> ccCalls[p], changed |-> ccChanged[p]])
        IN  /\ ccApiProfiles' = r.api
            /\ ccCalls' = [ccCalls EXCEPT ![p] = r.calls]
            /\ ccChanged' = [ccChanged EXCEPT ![p] = r.changed]
            /\ ccPc' = [ccPc EXCEPT ![p] = IF ~r.ok THEN "failed"
                                           ELSE IF ccAt[p] = Len(ccLocal) THEN "delete"
                                           ELSE "loop"]
    /\ ccAt' = [ccAt EXCEPT ![p] = ccAt[p] + 1]
    /\ UNCHANGED <<ccLocal, ccRemote, ccFetched, ccSerial, ccRest>>

\* SonarrQualityProfilesSettingsConfig.delete_remote of pass p; it ends the
\* pass. With delete_unmanaged False it makes no call but its GET, whose
\* answer it does not use, so it is one step.
CcProfilesDeleteRemote(p) ==
    /\ ccPc[p] = "delete"
    /\ LET r == profiles_delete_remote(ccLocal, FALSE, Val(ccRemote[p]), ccApiProfiles)
       IN  /\ ccApiProfiles' = r.api
           /\ ccCalls' = [ccCalls EXCEPT ![p] = ccCalls[p] \o r.calls]
    /\ ccPc' = [ccPc EXCEPT ![p] = "done"]
    /\ UNCHANGED <<ccLocal, ccRemote, ccFetched, ccAt, ccChanged, ccSerial, ccRest>>

CCNext ==
    \E p \in Passes :
        \/ CcFromRemote(p)
        \/ CcProfilesUpdateRemoteGet(p)
        \/ CcProfilesUpdateRemoteEntry(p)
        \/ CcProfilesDeleteRemote(p)

\* Passes over one instance, their HTTP calls interleaved in any order.
SpecConcurrent == CCInit /\ [][CCNext]_vars

(***************************************************************************)
(* Claims                                                                  *)
(***************************************************************************)

\* C2: for every valid profile whose quality names all exist in the catalog
\* built by update_remote, _decode_qualities(_encode_qualities(...)) is the
\* original list: same entries in the same order, each bare name unchanged,
\* each group with the same name and the same members.
C2_QualitiesRoundTrip ==
    cdPc = "decoded" => Val(cdBack) = cdQualities

\* C3: every successfully constructed Quality Profile with
\* upgrades_allowed = false has upgrade_until None, whatever value was
\* supplied, built from local configuration or decoded from remote JSON.
C3_UpgradeUntilForcedNone ==
    (QPConstructed /\ ~QPValue["upgrades_allowed"]) => QPValue["upgrade_until"] = None

\* A local profile with upgrades disallowed was given an upgrade_until that
\* names none of its qualities, and was constructed.
C3_Witness ==
    /\ QPConstructed
    /\ qpSrc = "local"
    /\ ~qpIn.upgrades_allowed
    /\ ~IsNone(qpIn.upgrade_until)
    /\ \A k \in DOMAIN qpIn.qualities : qpIn.qualities[k].name # Val(qpIn.upgrade_until)

\* C4: with upgrades_allowed = true, validation succeeds only if
\* upgrade_until is non-empty and is the name of a bare entry or of a group
\* of qualities; an absent or empty upgrade_until, a name not in qualities
\* and a name that is only a member of a group are rejected with a
\* validation error.
C4_UpgradeUntilRequired ==
    (qpPc = "done" /\ QPKw.ok /\ QPKw.value.upgrades_allowed) =>
        LET kw == QPKw.value
            named == /\ ~IsNone(kw.upgrade_until)
                     /\ Val(kw.upgrade_until) # ""
                     /\ \E k \in DOMAIN kw.qualities :
                            kw.qualities[k].name = Val(kw.upgrade_until)
        IN  /\ Val(qpOut).ok => (named /\ QPValue["upgrade_until"] = kw.upgrade_until)
            /\ (~named /\ QPFieldErrors("qualities") = {}) =>
                   QPFieldErrors("upgrade_until") # {}

\* An upgrade_until that is only a member of a group was rejected.
C4_Witness ==
    /\ qpPc = "done"
    /\ qpSrc = "local"
    /\ qpIn.upgrades_allowed
    /\ QPFieldErrors("qualities") = {}
    /\ ~IsNone(qpIn.upgrade_until)
    /\ \E k \in DOMAIN qpIn.qualities :
           /\ IsGroup(qpIn.qualities[k])
           /\ Val(qpIn.upgrade_until) \in qpIn.qualities[k].members
    /\ QPFieldErrors("upgrade_until") = {<<"must be set to a value enabled in 'qualities'">>}

\* The entries of `qualities` that hold the quality name n, in list order.
Holders(qualities, n) ==
    SelectSeq(qualities, LAMBDA q : IF IsGroup(q) THEN n \in q.members ELSE q.name = n)

\* The groups a duplicate message names, and what else it says.
GroupsNamed(msg) ==
    {msg[i + 1] : i \in {j \in 1..(Len(msg) - 1) :
                            msg[j] \in {"one as part of quality group",
                                        "another as part of quality group"}}}
SaysNonGrouped(msg) ==
    \E i \in DOMAIN msg : msg[i] \in {"one as a non-grouped quality value",
                                      "another as a non-grouped quality value"}
SaysBothNonGrouped(msg) ==
    \E i \in DOMAIN msg : msg[i] = "both are non-grouped quality values"

\* C5: validation of qualities fails whenever a quality name occurs twice
\* across bare entries and group members, and the message identifies both
\* conflicting entries: both groups by name, or the group by name and the
\* other as non-grouped (in either list order), or both as non-grouped.
C5_DuplicateMessage ==
    (qpPc = "done" /\ qpSrc = "local") =>
        \A n \in QualityNames :
            Len(Holders(qpIn.qualities, n)) >= 2 =>
                /\ QPFieldErrors("qualities") # {}
                /\ \A msg \in QPFieldErrors("qualities") :
                       msg[2] = n =>
                           LET a == Holders(qpIn.qualities, n)[1]
                               b == Holders(qpIn.qualities, n)[2]
                               groups == {q.name : q \in {x \in {a, b} : IsGroup(x)}}
                           IN  /\ GroupsNamed(msg) = groups
                               /\ SaysBothNonGrouped(msg) <=> (~IsGroup(a) /\ ~IsGroup(b))
                               /\ SaysNonGrouped(msg) <=> (IsGroup(a) # IsGroup(b))

\* C6: every successfully validated Quality Definition has
\* preferred - min >= 1 when preferred is finite, max - preferred >= 1 when
\* both are finite (so min < preferred < max), and an input of 1000 or more
\* for preferred or max is stored as None, never as a number.
C6_Bounds ==
    QDConstructed =>
        /\ ~IsNone(QDValue["preferred"]) =>
               Val(QDValue["preferred"]) - QDValue["min"] >= 1 * Unit
        /\ (~IsNone(QDValue["preferred"]) /\ ~IsNone(QDValue["max"])) =>
               /\ Val(QDValue["max"]) - Val(QDValue["preferred"]) >= 1 * Unit
               /\ QDValue["min"] < Val(QDValue["preferred"])
               /\ Val(QDValue["preferred"]) < Val(QDValue["max"])
        /\ (~IsNone(qdIn.preferred)
              /\ Val(qdIn.preferred) >= QUALITYDEFINITION_PREFERRED_MAX * Unit) =>
               IsNone(QDValue["preferred"])
        /\ (~IsNone(qdIn.max) /\ Val(qdIn.max) >= QUALITYDEFINITION_MAX * Unit) =>
               IsNone(QDValue["max"])

\* min < preferred < max, all finite, was constructed.
C6_Witness ==
    /\ QDConstructed
    /\ ~IsNone(QDValue["preferred"])
    /\ ~IsNone(QDValue["max"])

\* C7: a Quality Definition given with preferred unset and a finite max
\* below 1000 (the documented min=2, preferred=None, max=100) passes
\* validation, with preferred stored as None and max kept as given.
C7_UnsetPreferredFiniteMax ==
    (/\ qdPc = "done"
     /\ FieldMin(qdIn.min).ok
     /\ qdIn.preferred = None
     /\ ~IsNone(qdIn.max)
     /\ Val(qdIn.max) >= 1 * Unit
     /\ Val(qdIn.max) < QUALITYDEFINITION_MAX * Unit)
        => /\ Val(qdOut).ok
           /\ QDValue["preferred"] = None
           /\ QDValue["max"] = qdIn.max

\* C8: for every validated custom_formats list whose names all exist in
\* the remote catalog, _custom_formats_encoder gives exactly one entry per
\* catalog name: a locally listed name with the local score and the remote
\* format id, every other catalog name with score 0.
C8_OneEntryPerCustomFormat ==
    (cfPc \in {"encoded", "decoded"}) =>
        LET wire == Val(cfWire)
            local == Val(cfOut).value
        IN  /\ Len(wire) = Len(cfApi)
            /\ \A e \in Range(cfApi) :
                   \E k \in DOMAIN wire :
                       /\ wire[k].name = e.key
                       /\ wire[k].format = e.value.id
                       /\ \A m \in DOMAIN wire : wire[m].name = e.key => m = k
                       /\ IF \E i \in DOMAIN local : local[i].name = e.key
                          THEN \E i \in DOMAIN local :
                                   local[i].name = e.key /\ wire[k].score = local[i].score
                          ELSE wire[k].score = Some(0)

\* A list naming some but not all of the catalog was encoded.
C8_Witness ==
    /\ cfPc = "encoded"
    /\ Len(Val(cfOut).value) > 0
    /\ Len(Val(cfOut).value) < Len(cfApi)

\* The entries of l that repeat no earlier name, in order.
RECURSIVE FirstOccurrences(_)
FirstOccurrences(l) ==
    IF Len(l) = 0 THEN <<>>
    ELSE LET n == Len(l)
             init == SubSeq(l, 1, n - 1)
         IN  IF \E i \in 1..(n - 1) : l[i].name = l[n].name
             THEN FirstOccurrences(init)
             ELSE Append(FirstOccurrences(init), l[n])

\* C9: entries repeating an earlier name with the same score are dropped,
\* so the validated list has at most one entry per name in first-occurrence
\* order; an entry repeating an earlier name with a different score (one
\* may be None) fails validation with an error naming both scores.
C9_CustomFormatsDeduplicated ==
    (cfPc # "new") =>
        LET out == Val(cfOut)
            conflict == \E i, j \in DOMAIN cfIn :
                            cfIn[i].name = cfIn[j].name /\ cfIn[i].score # cfIn[j].score
        IN  IF conflict
            THEN /\ ~out.ok
                 /\ \E i, j \in DOMAIN cfIn :
                        /\ i < j
                        /\ cfIn[i].name = out.error[2] /\ cfIn[j].name = out.error[2]
                        /\ cfIn[i].score = out.error[3] /\ cfIn[j].score = out.error[4]
                        /\ out.error[3] # out.error[4]
            ELSE /\ out.ok
                 /\ out.value = FirstOccurrences(cfIn)
                 /\ \A i, j \in DOMAIN out.value :
                        out.value[i].name = out.value[j].name => i = j

\* A list repeating a name with the same score was validated, shortened.
C9_Witness ==
    /\ cfPc = "validated"
    /\ Len(Val(cfOut).value) < Len(cfIn)
    /\ Len(Val(cfOut).value) > 1

\* C1: after one full reconciliation pass (update_remote, then
\* delete_remote) a second pass with the same local configuration, and no
\* other change of the instance in between, makes no PUT, POST or DELETE
\* call.
C1_SecondPassMakesNoCall ==
    rcPass = 2 => rcCalls = <<>>

\* The calls a step of the profile handler added to those of the pass.
C10_Made == SubSeq(rcCalls', Len(rcCalls) + 1, Len(rcCalls'))

\* The encoded attributes of a local profile, for some order of iteration.
C10_IsEncoded(attrs, profile) ==
    \E ord \in RcOrders :
        attrs = profile_remote_attrs(profile, quality_definitions_of(rcApiDefs), rcApiCfs,
                                     group_ids_of(profile["qualities"]), ord)

C10_Step ==
    (rcPc = "update" /\ "profiles" \in rcTodo /\ "profiles" \notin rcTodo') =>
        LET snapshot == Val(rcRemote).profiles
            local == rcLocal.definitions
            For(name) == {k \in DOMAIN C10_Made : C10_Made[k].body.name = name}
        IN  /\ \A i \in DOMAIN local :
                  LET name == local[i].key
                      profile == local[i].value
                  IN  IF ~DictHas(snapshot, name)
                      THEN \E k \in DOMAIN C10_Made :
                              /\ For(name) = {k}
                              /\ C10_Made[k].method = "POST"
                              /\ C10_Made[k].body.name = name
                              /\ DOMAIN C10_Made[k].body
                                    = {"name", "minFormatScore", "cutoffFormatScore",
                                       "minUpgradeFormatScore", "formatItems",
                                       "upgradeAllowed", "cutoff", "items"}
                              /\ C10_IsEncoded([n \in DOMAIN C10_Made[k].body \ {"name"} |->
                                                   C10_Made[k].body[n]], profile)
                      ELSE IF \E attr \in ProfileAttrs :
                                  profile[attr] # DictGet(snapshot, name)[attr]
                      THEN \E k \in DOMAIN C10_Made :
                              /\ For(name) = {k}
                              /\ C10_Made[k].method = "PUT"
                              /\ C10_Made[k].id = profile_id_of(rcApiProfiles, name)
                              /\ C10_Made[k].body.id = profile_id_of(rcApiProfiles, name)
                              /\ C10_Made[k].body.name = name
                              /\ DOMAIN C10_Made[k].body
                                    = {"id", "name", "minFormatScore", "cutoffFormatScore",
                                       "minUpgradeFormatScore", "formatItems",
                                       "upgradeAllowed", "cutoff", "items"}
                              /\ C10_IsEncoded([n \in DOMAIN C10_Made[k].body \ {"id", "name"} |->
                                                   C10_Made[k].body[n]], profile)
                      ELSE For(name) = {}
            /\ \A k \in DOMAIN C10_Made :
                  /\ C10_Made[k].method \in {"POST", "PUT"}
                  /\ DictHas(local, C10_Made[k].body.name)
            /\ rcChanged'.profiles = (C10_Made # <<>>)

\* C10: a profile update_remote that returns has made, for each locally
\* defined name, one POST with the name and every encoded attribute when the
\* name is absent from the remote snapshot, one PUT to the profile's id with
\* id, name and every mapped field when it is present and a field differs,
\* and no call when no field differs; it made no call for any other name,
\* and it returned true exactly when it made a call.
C10_OneCallPerLocalProfile == [][C10_Step]_vars

\* C10 happens: a profile update_remote returned having created one profile
\* (POST) and updated another (PUT).
C10_Witness ==
    /\ rcPc \in {"update", "delete"}
    /\ "profiles" \notin rcTodo
    /\ rcChanged.profiles
    /\ \E k \in DOMAIN rcCalls :
           rcCalls[k].resource = "qualityprofile" /\ rcCalls[k].method = "POST"
    /\ \E k \in DOMAIN rcCalls :
           rcCalls[k].resource = "qualityprofile" /\ rcCalls[k].method = "PUT"

\* The calls a step added to those of the pass.
MadeByStep == SubSeq(rcCalls', Len(rcCalls) + 1, Len(rcCalls'))

\* The ids of the profiles of the instance that the remote snapshot names
\* and the local definitions do not.
UnmanagedIds ==
    {rcApiProfiles[k].id :
        k \in {j \in DOMAIN rcApiProfiles :
                  /\ DictHas(Val(rcRemote).profiles, rcApiProfiles[j].name)
                  /\ ~DictHas(rcLocal.definitions, rcApiProfiles[j].name)}}

C11_Step ==
    (rcPc = "delete" /\ rcPc' = "start") =>
        LET expected == IF rcLocal.delete_unmanaged THEN UnmanagedIds ELSE {}
        IN  /\ \A k \in DOMAIN MadeByStep :
                  /\ MadeByStep[k].method = "DELETE"
                  /\ MadeByStep[k].resource = "qualityprofile"
            /\ {MadeByStep[k].id : k \in DOMAIN MadeByStep} = expected
            /\ Len(MadeByStep) = Cardinality(expected)
            \* the profiles not deleted are left as they were
            /\ rcApiProfiles' = SelectSeq(rcApiProfiles, LAMBDA p : p.id \notin expected)
            /\ ~rcLocal.delete_unmanaged => rcApiProfiles' = rcApiProfiles
            /\ \A k \in DOMAIN rcApiProfiles :
                  DictHas(rcLocal.definitions, rcApiProfiles[k].name)
                      => \E j \in DOMAIN rcApiProfiles' : rcApiProfiles'[j] = rcApiProfiles[k]
            /\ rcChanged'.delete = (MadeByStep # <<>>)

\* C11: delete_remote makes a DELETE for a remote profile exactly when
\* delete_unmanaged is true and the profile's name is not locally defined;
\* with delete_unmanaged false it makes no DELETE and leaves every profile
\* as it was; a locally defined profile is never deleted.
C11_DeleteOnlyUnmanaged == [][C11_Step]_vars

\* C11 happens: delete_remote ran with delete_unmanaged true on an instance
\* holding a managed and an unmanaged profile, deleted the one and kept the
\* other.
C11_Witness ==
    /\ rcPc = "start"
    /\ rcPass = 1
    /\ rcLocal.delete_unmanaged
    /\ rcChanged.delete
    /\ \E k \in DOMAIN rcCalls : rcCalls[k].method = "DELETE" /\ rcCalls[k].id = 1
    /\ \E k \in DOMAIN rcApiProfiles : rcApiProfiles[k].name = "P1"
    /\ \A k \in DOMAIN rcApiProfiles : rcApiProfiles[k].name # "Any"

\* The ids of the definitions of the instance and the qualities they are of.
DefinitionKeys(api_definitions) ==
    [k \in 1..Len(api_definitions) |->
        [id |-> api_definitions[k].id, quality |-> api_definitions[k].quality]]

C12_Step ==
    LET made == SelectSeq(MadeByStep, LAMBDA c : c.resource = "qualitydefinition")
    IN  \* no definition appears or disappears
        /\ DefinitionKeys(rcApiDefs') = DefinitionKeys(rcApiDefs)
        \* every call is a PUT to an existing definition that is locally
        \* defined and differs from what from_remote gave
        /\ \A c \in Range(made) :
              /\ c.method = "PUT"
              /\ \E k \in DOMAIN rcApiDefs :
                    LET name == rcApiDefs[k].quality.name
                    IN  /\ rcApiDefs[k].id = c.id
                        /\ c.body.id = c.id
                        /\ c.body.quality = rcApiDefs[k].quality
                        /\ DictHas(rcLocal.quality, name)
                        /\ \E attr \in {"title", "min", "preferred", "max"} :
                              DictGet(rcLocal.quality, name)[attr]
                                  # DictGet(Val(rcRemote).quality, name)[attr]
        \* a definition changes only by such a PUT
        /\ \A k \in DOMAIN rcApiDefs :
              rcApiDefs'[k] # rcApiDefs[k]
                  => /\ DictHas(rcLocal.quality, rcApiDefs[k].quality.name)
                     /\ \E c \in Range(made) : c.id = rcApiDefs[k].id /\ c.body = rcApiDefs'[k]

\* C12: the quality definition update_remote creates and deletes no remote
\* definition (ids and quality names stay as they are); its only calls are
\* PUTs to the id of an existing definition whose local counterpart differs
\* in title, min, preferred or max, and a definition with no local entry is
\* left as it is.
C12_DefinitionsOnlyUpdated == [][C12_Step]_vars

\* C12 happens: update_remote returned having PUT one definition of an
\* instance while another, without local entry, differs from Sonarr's own.
C12_Witness ==
    /\ rcPc \in {"update", "delete"}
    /\ "quality" \notin rcTodo
    /\ rcChanged.quality
    /\ Len(rcLocal.quality) = 2
    /\ \E k \in DOMAIN rcCalls :
           rcCalls[k].resource = "qualitydefinition" /\ rcCalls[k].method = "PUT"
    /\ \E k \in DOMAIN rcApiDefs : rcApiDefs[k].minSize = Some(3 * Unit)

\* A trash_id is configured and a file of the directory declares it.
RnMatches ==
    /\ ~IsNone(rnTrashId)
    /\ \E k \in DOMAIN rnFiles : Lower(rnFiles[k].trash_id) = Val(rnTrashId)

\* The entries of the first such file.
RnQualities ==
    rnFiles[Min({k \in DOMAIN rnFiles : Lower(rnFiles[k].trash_id) = Val(rnTrashId)})].qualities

\* The elements of a set of indices, in increasing order.
Ascending(S) ==
    [k \in 1..Cardinality(S) |-> CHOOSE i \in S : Cardinality({j \in S : j < i}) = k - 1]

\* The dataset entries of quality names that are not locally defined, one
\* per name (the first), in the order of the file.
RnNew ==
    LET first == {i \in DOMAIN RnQualities :
                     /\ ~DictHas(rnDefinitions, RnQualities[i].quality)
                     /\ \A j \in 1..(i - 1) : RnQualities[j].quality # RnQualities[i].quality}
    IN  [k \in 1..Cardinality(first) |-> RnQualities[Ascending(first)[k]]]

\* The documented bounds of a Quality Definition: 0 <= min <= 999;
\* preferred unbounded or 0 <= preferred <= 1000 and at least min + 1; max
\* unbounded or 1 <= max <= 1000 and at least preferred + 1, unless either
\* is unbounded. 1000 is the unbounded sentinel.
RnUnbounded(x) == IsNone(x) \/ Val(x) = QUALITYDEFINITION_MAX * Unit

RnDocumented(entry) ==
    /\ ~IsNone(entry.min)
    /\ Val(entry.min) >= 0
    /\ Val(entry.min) <= 999 * Unit
    /\ \/ RnUnbounded(entry.preferred)
       \/ /\ Val(entry.preferred) >= Val(entry.min) + Unit
          /\ Val(entry.preferred) <= QUALITYDEFINITION_PREFERRED_MAX * Unit
    /\ \/ RnUnbounded(entry.max)
       \/ /\ Val(entry.max) >= Unit
          /\ Val(entry.max) <= QUALITYDEFINITION_MAX * Unit
          /\ RnUnbounded(entry.preferred) \/ Val(entry.max) >= Val(entry.preferred) + Unit

\* A definition holding the dataset's values, the sentinel stored as absent.
RnAsGiven(entry) ==
    [key |-> entry.quality,
     value |-> [title |-> None, min |-> Val(entry.min),
                preferred |-> IF RnUnbounded(entry.preferred) THEN None ELSE entry.preferred,
                max |-> IF RnUnbounded(entry.max) THEN None ELSE entry.max]]

C13_StepAsGiven ==
    (rnPc = "new" /\ rnPc' # "new") =>
        /\ IsNone(rnTrashId) => (rnPc' = "done" /\ rnDefinitions' = rnDefinitions)
        /\ (RnMatches /\ \A k \in DOMAIN RnNew : RnDocumented(RnNew[k])) =>
              /\ rnPc' = "done"
              /\ rnDefinitions' = rnDefinitions \o [k \in 1..Len(RnNew) |-> RnAsGiven(RnNew[k])]

\* C13: with a trash_id configured and a matching dataset file whose
\* entries are within the documented bounds, _render leaves every
\* definition already present as it is and adds one definition, holding the
\* dataset's min, preferred and max and no title, for each dataset quality
\* name not locally defined; with no trash_id it changes nothing.
C13_RenderAddsDatasetValues == [][C13_StepAsGiven]_vars

\* What QualityDefinition(title=None, min=, preferred=, max=) makes of an entry.
RnConstructed(entry) ==
    QualityDefinitionNew([title |-> None, min |-> entry.min,
                          preferred |-> entry.preferred, max |-> entry.max])

RenderStepConstructed ==
    (rnPc = "new" /\ rnPc' # "new") =>
        /\ IsNone(rnTrashId) => (rnPc' = "done" /\ rnDefinitions' = rnDefinitions)
        /\ RnMatches =>
              LET rejected == {k \in DOMAIN RnNew : ~RnConstructed(RnNew[k]).ok}
                  added == IF rejected = {} THEN Len(RnNew) ELSE Min(rejected) - 1
              IN  /\ rnPc' = IF rejected = {} THEN "done" ELSE "failed"
                  /\ rejected # {} =>
                        rnRaised' = Some(<<"ValidationError", RnNew[Min(rejected)].quality>>)
                  /\ rnDefinitions'
                        = rnDefinitions \o [k \in 1..added |->
                                               [key |-> RnNew[k].quality,
                                                value |-> RnConstructed(RnNew[k]).value]]

\* What _render does with the entries: the definition added for a dataset
\* quality name is the one the QualityDefinition constructor makes of the
\* dataset's values; the first entry the constructor rejects makes _render
\* raise its ValidationError, the definitions added before it kept. Local
\* definitions stay as they are, and with no trash_id nothing changes.
RenderAddsConstructed == [][RenderStepConstructed]_vars

\* _render returned having added "SDTV" from the dataset next to the local
\* "DVD", which the matching file defines as well.
RenderKeepsLocal ==
    /\ rnPc = "done"
    /\ RnMatches
    /\ \E i \in DOMAIN RnQualities : RnQualities[i].quality = "DVD"
    /\ Len(rnDefinitions) = 2
    /\ rnDefinitions[1] = [key |-> "DVD", value |-> RcDefinition(None, 3 * Unit)]
    /\ rnDefinitions[2].key = "SDTV"
    /\ rnDefinitions[2].value["title"] = None

\* C14: in a validated Quality Profile every Quality Group name differs
\* from the name of every other group and of every bare entry of the
\* profile, so group_ids gives every group of the encoded body an id of
\* its own.
C14_GroupNamesUnique ==
    (QPConstructed /\ qpSrc = "local") =>
        LET qualities == QPValue.qualities
            group_ids == group_ids_of(qualities)
        IN  \A i \in DOMAIN qualities :
                IsGroup(qualities[i]) =>
                    \A j \in DOMAIN qualities \ {i} :
                        /\ qualities[j].name # qualities[i].name
                        /\ IsGroup(qualities[j]) =>
                              group_ids[qualities[j].name] # group_ids[qualities[i].name]

\* The id and the name _upgrade_until_decoder reads of an entry of items:
\* the entry's own when it has an "id" key, the nested quality's otherwise.
CutoffIdOf(item) == IF "id" \in DOMAIN item THEN item.id ELSE item.quality.id
CutoffNameOf(item) == IF "id" \in DOMAIN item THEN item.name ELSE item.quality.name

\* C15: decoding a remote profile, _upgrade_until_decoder returns the name
\* of the first entry of items whose id (its own for a group, the nested
\* quality's otherwise) equals cutoff, and raises the RuntimeError carrying
\* the cutoff exactly when no entry has that id.
C15_CutoffDecoded ==
    (qpSrc = "remote" /\ qpPc = "done") =>
        LET matching == {k \in DOMAIN qpIn.items : CutoffIdOf(qpIn.items[k]) = qpIn.cutoff}
            raised == /\ ~Val(qpOut).ok
                      /\ "raised" \in DOMAIN Val(qpOut)
                      /\ Val(qpOut).raised[1] = "RuntimeError"
        IN  /\ raised <=> matching = {}
            /\ raised => Val(qpOut).raised[3] = qpIn.cutoff
            /\ matching # {} =>
                  /\ QPKw.ok
                  /\ QPKw.value.upgrade_until = Some(CutoffNameOf(qpIn.items[Min(matching)]))
                  /\ (QPConstructed /\ qpIn.upgradeAllowed) =>
                        QPValue.upgrade_until = Some(CutoffNameOf(qpIn.items[Min(matching)]))

\* C15 happens: a remote profile whose cutoff is the id of its second
\* group was decoded, and upgrade_until is that group's name.
C15_Witness ==
    /\ qpSrc = "remote"
    /\ QPConstructed
    /\ qpIn.upgradeAllowed
    /\ qpIn.cutoff = 1002
    /\ \E k \in DOMAIN qpIn.items :
           /\ "id" \in DOMAIN qpIn.items[k]
           /\ qpIn.items[k].id = 1002
           /\ QPValue.upgrade_until = Some(qpIn.items[k].name)

\* An entry of the wire list is a group when it has an "id" key.
WireIsGroup(item) == "id" \in DOMAIN item

\* Where the remote quality `quality` stands in the wire list: <<k, 0>> for
\* the bare entry k, <<k, m>> for the member m of the group k.
WirePlaces(wire, quality) ==
    {p \in (DOMAIN wire) \X (0..MaxMembers) :
        IF p[2] = 0
        THEN ~WireIsGroup(wire[p[1]]) /\ wire[p[1]].quality = quality
        ELSE /\ WireIsGroup(wire[p[1]])
             /\ p[2] \in DOMAIN wire[p[1]].items
             /\ wire[p[1]].items[p[2]].quality = quality}

\* C16: for every valid profile the list _encode_qualities returns holds
\* every quality of the remote catalog exactly once (an enabled bare entry,
\* a member of an enabled group or a disabled bare entry); the disabled
\* entries are exactly the catalog names the profile does not enable; all
\* disabled entries come before all enabled ones, and the enabled entries
\* are the local ones in reverse order.
C16_EncodeCoversCatalog ==
    cdPc \in {"encoded", "decoded"} =>
        LET wire == Val(cdWire)
            catalog == quality_definitions_of(cdApi)
            names == {DictKeys(catalog)[k] : k \in DOMAIN DictKeys(catalog)}
            enabled == UNION {IF IsGroup(cdQualities[i]) THEN cdQualities[i].members
                              ELSE {cdQualities[i].name} : i \in DOMAIN cdQualities}
            disabled == Len(wire) - Len(cdQualities)
        IN  /\ \A n \in names : Cardinality(WirePlaces(wire, DictGet(catalog, n))) = 1
            /\ {wire[k].quality : k \in {k \in DOMAIN wire : ~wire[k].allowed}}
                   = {DictGet(catalog, n) : n \in names \ enabled}
            /\ disabled = Cardinality(names \ enabled)
            /\ \A k \in DOMAIN wire :
                   /\ wire[k].allowed <=> k > disabled
                   /\ ~wire[k].allowed => (~WireIsGroup(wire[k]) /\ wire[k].items = <<>>)
            /\ \A i \in DOMAIN cdQualities :
                   LET item == wire[Len(wire) + 1 - i]
                   IN  IF IsGroup(cdQualities[i])
                       THEN /\ WireIsGroup(item)
                            /\ item.name = cdQualities[i].name
                            /\ {item.items[m].quality : m \in DOMAIN item.items}
                                   = {DictGet(catalog, n) : n \in cdQualities[i].members}
                            /\ \A m \in DOMAIN item.items : item.items[m].allowed
                       ELSE /\ ~WireIsGroup(item)
                            /\ item.quality = DictGet(catalog, cdQualities[i].name)
                            /\ item.items = <<>>

\* C16 happens: a group and then a bare quality were encoded against a
\* catalog that knows a third quality, which is sent disabled.
C16_Witness ==
    /\ cdPc = "encoded"
    /\ Len(cdQualities) = 2
    /\ IsGroup(cdQualities[1])
    /\ ~IsGroup(cdQualities[2])
    /\ Len(Val(cdWire)) = 3
    /\ ~Val(cdWire)[1].allowed
    /\ Val(cdWire)[3].allowed

\* The POST calls of profile `name`: <<p, k>> for the k-th call of pass p.
CcPosts(name) ==
    {c \in Passes \X (1..Len(ccLocal)) :
        /\ c[2] \in DOMAIN ccCalls[c[1]]
        /\ ccCalls[c[1]][c[2]].method = "POST"
        /\ ccCalls[c[1]][c[2]].body.name = name}

\* C17: passes that run one after the other create each profile name at
\* most once between them; a name is POSTed by two passes only when one
\* took its remote instance while the other was under way.
C17_SerialPassesCreateOnce ==
    ccSerial => \A k \in DOMAIN ccLocal : Cardinality(CcPosts(ccLocal[k].key)) <= 1

\* C17 happens: two interleaved passes have ended, both took their remote
\* instance before either changed it, and both have POSTed "P1", which the
\* instance lacked.
C17_Witness ==
    /\ \A p \in Passes : ccPc[p] = "done"
    /\ ~ccSerial
    /\ \A p \in Passes : ~DictHas(Val(ccRemote[p]), "P1")
    /\ \E c, d \in CcPosts("P1") : c[1] # d[1]

====
